---- MODULE Spec2Model ----
(***************************************************************************)
(* McIDAS AREA decoder (src/src/metpy/io/mcidas.py): the binary decoding   *)
(* pipeline of AreaFile.__init__ and the georeferencing arithmetic, with   *)
(* the pure helpers dms_to_decimal, range_longitude and repeat_format.     *)
(*                                                                         *)
(* Conventions.  A file is a sequence of bytes (0..255).  Python floats    *)
(* are modelled as exact rationals <<numerator, denominator>> in lowest    *)
(* terms (rounding error is not modelled).  A function that may raise      *)
(* returns a record whose err field is None or the exception.              *)
(***************************************************************************)
EXTENDS Integers, Sequences, FiniteSets, TLC

VARIABLES
    src,              \* what the writer stored in the file (never read by the decoder)
    host,             \* sys.byteorder of the decoding process
    file,             \* IOBuffer._data: the bytes of the source
    pc,               \* position of AreaFile.__init__
    offset,           \* IOBuffer._offset: the stream cursor
    start,            \* the offset saved by set_mark() as self._start
    swapped_bytes, prefmt, endian,
    directory_block, navigation_type,
    navigation_block, \* Unset or <<the decoded record>>, like the next four
    georef,           \* _x, _y, _lons, _lats, _crs, _extent, is_projected
    timestamp,        \* self._timestamp
    data, j,          \* _get_data: the array being filled and the row index
    image,            \* self._image
    error,            \* the exception that left __init__, or None
    result,           \* what the caller of AreaFile(file) receives
    stages,           \* the stages of __init__ entered so far, in order
    arg, out          \* input and output of the pure helpers

vars == <<src, host, file, pc, offset, start, swapped_bytes, prefmt, endian,
          directory_block, navigation_type, navigation_block, georef, timestamp,
          data, j, image, error, result, stages, arg, out>>

\* Python's None.
None == "<None>"

\* An attribute of the object is << >> until it is assigned and <<value>> after.
Unset == << >>

\* An exception: its class, its message and the value the message names.  A call
\* that returns normally has err = NoError.
Exc(type, text, names) == [type |-> type, text |-> text, names |-> names]
NoError == Exc("None", "", None)
Failed(r) == r.err # NoError

(***************************************************************************)
(* Exact rational arithmetic (the model of Python float arithmetic).       *)
(***************************************************************************)
Abs(n) == IF n < 0 THEN -n ELSE n

RECURSIVE Gcd(_, _)
Gcd(a, b) == IF b = 0 THEN a ELSE Gcd(b, a % b)

Rat(n, d) ==
    LET g == Gcd(Abs(n), Abs(d))
        s == IF d < 0 THEN -1 ELSE 1
    IN  <<(s * n) \div g, (s * d) \div g>>

Int2Rat(n) == <<n, 1>>
Lcm(a, b) == (a \div Gcd(a, b)) * b
RNeg(p) == <<-p[1], p[2]>>
RAdd(p, q) ==
    LET d == Lcm(p[2], q[2])
    IN  Rat(p[1] * (d \div p[2]) + q[1] * (d \div q[2]), d)
RSub(p, q) == RAdd(p, RNeg(q))
RMul(p, q) ==
    LET g1 == Gcd(Abs(p[1]), q[2])
        g2 == Gcd(Abs(q[1]), p[2])
    IN  Rat((p[1] \div g1) * (q[1] \div g2), (p[2] \div g2) * (q[2] \div g1))
RInv(q) == IF q[1] < 0 THEN <<-q[2], -q[1]>> ELSE <<q[2], q[1]>>
RDiv(p, q) == RMul(p, RInv(q))
RLess(p, q) == RSub(p, q)[1] < 0
RMin(S) == CHOOSE p \in S : \A q \in S : ~RLess(q, p)
RMax(S) == CHOOSE p \in S : \A q \in S : ~RLess(p, q)
\* ndarray.astype('int64') of a float: truncation toward zero.
Trunc(p) == IF p[1] >= 0 THEN p[1] \div p[2] ELSE -((-p[1]) \div p[2])

(***************************************************************************)
(* Bytes and integers: int.from_bytes / struct 'i' / numpy dtypes.         *)
(***************************************************************************)
Reverse(s) == [i \in 1..Len(s) |-> s[Len(s) + 1 - i]]

\* The width low-order bytes of v in two's complement, least significant first.
RECURSIVE LittleBytes(_, _)
LittleBytes(v, width) ==
    IF width = 0 THEN << >> ELSE <<v % 256>> \o LittleBytes(v \div 256, width - 1)

IntToBytes(v, width, order) ==
    IF order = "little" THEN LittleBytes(v, width) ELSE Reverse(LittleBytes(v, width))

\* The number whose big-endian digits in base 256 are `bytes`.
RECURSIVE BigValue(_)
BigValue(bytes) ==
    IF bytes = << >> THEN 0
    ELSE 256 * BigValue(SubSeq(bytes, 1, Len(bytes) - 1)) + bytes[Len(bytes)]

\* A fixed-width integer (struct 'i', a numpy element) of at most 31 value bits.
FixedInt(bytes, order, signed) ==
    LET be == IF order = "little" THEN Reverse(bytes) ELSE bytes
    IN  IF signed /\ be # << >> /\ be[1] >= 128
        THEN BigValue(<<be[1] - 256>> \o Tail(be))
        ELSE BigValue(be)

\* int.from_bytes(bytes, order, signed=signed): a Python int, which is unbounded;
\* it is kept as <<hi, lo>> with value hi * 65536 + lo and 0 <= lo < 65536.
from_bytes(bytes, order, signed) ==
    LET be == IF order = "little" THEN Reverse(bytes) ELSE bytes
        n == Len(be)
        lo == BigValue(SubSeq(be, IF n > 2 THEN n - 1 ELSE 1, n))
        hib == SubSeq(be, 1, n - 2)
        hi == IF signed /\ hib # << >> /\ hib[1] >= 128
              THEN BigValue(<<hib[1] - 256>> \o Tail(hib))
              ELSE BigValue(hib)
    IN  <<hi, lo>>

\* a == b for a Python int a kept as <<hi, lo>> and a 32-bit integer b.
PyIntEquals(a, b) == a = <<b \div 65536, b % 65536>>

Zeros(n) == [i \in 1..n |-> 0]

\* chr() and ord() for the characters the files use: space, '-', digits, letters.
DigitChars == <<"0", "1", "2", "3", "4", "5", "6", "7", "8", "9">>
UpperChars ==
    <<"A", "B", "C", "D", "E", "F", "G", "H", "I", "J", "K", "L", "M", "N", "O", "P",
      "Q", "R", "S", "T", "U", "V", "W", "X", "Y", "Z">>
LowerChars ==
    <<"a", "b", "c", "d", "e", "f", "g", "h", "i", "j", "k", "l", "m", "n", "o", "p",
      "q", "r", "s", "t", "u", "v", "w", "x", "y", "z">>

CharCodes == {32, 45} \cup (48..57) \cup (65..90) \cup (97..122)

Chr(code) ==
    CASE code = 32 -> " "
      [] code = 45 -> "-"
      [] code \in 48..57 -> DigitChars[code - 47]
      [] code \in 65..90 -> UpperChars[code - 64]
      [] code \in 97..122 -> LowerChars[code - 96]

Ord(char) == CHOOSE code \in CharCodes : Chr(code) = char

\* bytes.decode() of printable bytes: the text they spell.
RECURSIVE Decode(_)
Decode(bytes) == IF bytes = << >> THEN "" ELSE Chr(Head(bytes)) \o Decode(Tail(bytes))

\* str.encode(): the bytes of a text given as its characters.
Encode(chars) == [i \in 1..Len(chars) |-> Ord(chars[i])]

(***************************************************************************)
(* Module-level helpers of mcidas.py.                                      *)
(***************************************************************************)
IsSpace(code) == code \in {9, 10, 11, 12, 13, 32}

RECURSIVE LStrip(_)
LStrip(bytes) ==
    IF bytes # << >> /\ IsSpace(Head(bytes)) THEN LStrip(Tail(bytes)) ELSE bytes

\* bytestring.decode().replace(NUL, '').strip()
_decode_strip(bytestring) ==
    LET kept == SelectSeq(bytestring, LAMBDA b : b # 0)
    IN  Decode(Reverse(LStrip(Reverse(LStrip(kept)))))

\* The decimal digits of n >= 0, as characters.
RECURSIVE Digits(_)
Digits(n) ==
    IF n < 10 THEN <<Chr(48 + n)>> ELSE Digits(n \div 10) \o <<Chr(48 + (n % 10))>>

ZFill(chars, width) ==
    IF Len(chars) >= width THEN chars
    ELSE [i \in 1..(width - Len(chars)) |-> "0"] \o chars

\* f'{n:0<width>d}': the sign counts in the width.
FormatInt(n, width) ==
    IF n < 0 THEN <<"-">> \o ZFill(Digits(-n), width - 1) ELSE ZFill(Digits(n), width)

RECURSIVE DigitsValue(_)
DigitsValue(chars) ==
    IF chars = << >> THEN 0
    ELSE 10 * DigitsValue(SubSeq(chars, 1, Len(chars) - 1)) + (Ord(chars[Len(chars)]) - 48)

\* int(text) / float(text) of an optionally signed run of digits.
ParseInt(chars) ==
    IF chars # << >> /\ Head(chars) = "-" THEN -DigitsValue(Tail(chars))
    ELSE DigitsValue(chars)

\* A conversion that divides the seconds by 60 as it does the minutes.
dms_to_decimal_sixty(dms) ==
    LET dms_str == FormatInt(dms, 7)
        d == Int2Rat(ParseInt(SubSeq(dms_str, 1, 3)))
        m == Int2Rat(ParseInt(SubSeq(dms_str, 4, 5)))
        s == Int2Rat(ParseInt(SubSeq(dms_str, 6, Len(dms_str))))
    IN  RAdd(RAdd(d, RDiv(m, Int2Rat(60))), RDiv(s, Int2Rat(60)))

dms_to_decimal(dms) ==
    LET dms_str == FormatInt(dms, 7)
        d == Int2Rat(ParseInt(SubSeq(dms_str, 1, 3)))
        m == Int2Rat(ParseInt(SubSeq(dms_str, 4, 5)))
        s == Int2Rat(ParseInt(SubSeq(dms_str, 6, Len(dms_str))))
    IN  RAdd(RAdd(d, RDiv(m, Int2Rat(60))), RDiv(s, Int2Rat(3600)))

\* A re-ranging that folds only longitudes beyond 180, once.
range_longitude_once(lon) == IF lon >= 180 THEN lon - 360 ELSE lon

\* Python's % takes the sign of the divisor, as TLA+'s does.
range_longitude(lon) == ((lon + 180) % 360) - 180

\* An expansion ordered by name first and repetition second.
repeat_format_by_name(names, binary_format, repeat, call) ==
    [e \in 1..(repeat * Len(names)) |->
        LET k == ((e - 1) \div repeat) + 1
            n == ((e - 1) % repeat) + 1
        IN  IF call # None THEN <<names[k] \o ToString(n), binary_format, call>>
            ELSE <<names[k] \o ToString(n), binary_format>>]

RECURSIVE repeat_format(_, _, _, _)
repeat_format(names, binary_format, repeat, call) ==
    IF repeat = 0 THEN << >>
    ELSE repeat_format(names, binary_format, repeat - 1, call)
         \o [k \in 1..Len(names) |->
                IF call # None THEN <<names[k] \o ToString(repeat), binary_format, call>>
                ELSE <<names[k] \o ToString(repeat), binary_format>>]

(***************************************************************************)
(* The struct module's format characters, as the tables use them:          *)
(* 'i' a 4-byte signed integer, 'Ns' N bytes kept, 'Nx' N bytes skipped.   *)
(***************************************************************************)
StructKind(fmt) ==
    CASE fmt = "i" -> "i"
      [] fmt \in {"4s", "32s"} -> "s"
      [] OTHER -> "x"

\* Sizes with every run of padding rounded up to a multiple of 8 bytes.
StructSize_aligned(fmt) ==
    CASE fmt \in {"i", "4s"} -> 4
      [] fmt \in {"4x", "8x"} -> 8
      [] fmt = "32s" -> 32
      [] fmt = "36x" -> 40
      [] fmt = "48x" -> 48
      [] fmt = "72x" -> 72
      [] fmt = "108x" -> 112
      [] fmt = "120x" -> 120
      [] fmt = "184x" -> 184
      [] fmt = "252x" -> 256
      [] fmt = "264x" -> 264
      [] fmt = "272x" -> 272
      [] fmt = "436x" -> 440
      [] fmt = "440x" -> 440
      [] fmt = "456x" -> 456
      [] fmt = "508x" -> 512
      [] fmt = "984x" -> 984
      [] fmt = "1028x" -> 1032

StructSize(fmt) ==
    CASE fmt \in {"i", "4s", "4x"} -> 4
      [] fmt = "8x" -> 8
      [] fmt = "32s" -> 32
      [] fmt = "36x" -> 36
      [] fmt = "48x" -> 48
      [] fmt = "72x" -> 72
      [] fmt = "108x" -> 108
      [] fmt = "120x" -> 120
      [] fmt = "184x" -> 184
      [] fmt = "252x" -> 252
      [] fmt = "264x" -> 264
      [] fmt = "272x" -> 272
      [] fmt = "436x" -> 436
      [] fmt = "440x" -> 440
      [] fmt = "456x" -> 456
      [] fmt = "508x" -> 508
      [] fmt = "984x" -> 984
      [] fmt = "1028x" -> 1028

(***************************************************************************)
(* AreaFile.directory_format and the navigation tables of                  *)
(* AreaFile._get_navigation_format, entry for entry.                       *)
(***************************************************************************)
directory_format ==
    << <<"adde_position", "i">>, <<"image_type", "i">>, <<"sensor_source", "i">>,
       <<"date", "i">>, <<"time", "i">>, <<"upper_left_line_coordinate", "i">>,
       <<"upper_left_image_element", "i">>, <<None, "4x">>, <<"image_lines", "i">>,
       <<"data_per_line", "i">>, <<"bytes_per_point", "i">>, <<"line_resolution", "i">>,
       <<"element_resolution", "i">>, <<"spectral_bands", "i">>, <<"line_prefix_length",
       "i">>, <<"ssec_project", "i">>, <<"creation_date", "i">>, <<"creation_time",
       "i">>, <<"spectral_band_map_32", "i">>, <<"spectral_band_map_64", "i">>,
       <<"word21", "i">>, <<"word22", "i">>, <<"word23", "i">>, <<"word24", "i">>,
       <<"memo", "32s", "_decode_strip">>, <<"area_number", "i">>, <<"data_offset",
       "i">>, <<"navigation_offset", "i">>, <<"validity_code", "i">>, <<"pdl1", "i">>,
       <<"pdl2", "i">>, <<"pdl3", "i">>, <<"pdl4", "i">>, <<"pdl5", "i">>, <<"pdl6",
       "i">>, <<"pdl7", "i">>, <<"pdl8", "i">>, <<"band8_source", "i">>,
       <<"image_start_date", "i">>, <<"image_start_time", "i">>, <<"image_start_scan",
       "i">>, <<"prefix_doc_length", "i">>, <<"prefix_calibration_length", "i">>,
       <<"prefix_band_length", "i">>, <<"source_type", "4s", "bytes.decode">>,
       <<"calibration_type", "4s", "bytes.decode">>, <<"word54", "i">>, <<"word55",
       "i">>, <<"word56", "i">>, <<"original_source_type", "i">>, <<"units", "i">>,
       <<"scaling", "i">>, <<"supplemental_offset", "i">>, <<"supplemental_length",
       "i">>, <<"word62", "i">>, <<"calibration_offset", "i">>, <<"comment_length",
       "i">> >>

nav_DMSP ==
    << <<"source_date", "i">>, <<"image_time", "i">>, <<"orbit_type", "i">>,
       <<"epoch_date", "4s">>, <<"epoch_time", "4s">>, <<"mean_motion1", "i">>,
       <<"mean_motion2", "i">>, <<"mean_motion3", "i">>, <<"bstart1", "i">>,
       <<"bstart2", "i">>, <<"inclination", "i">>, <<"right_ascension", "i">>,
       <<"eccentricity", "i">>, <<"perigee", "i">>, <<"mean_anomaly", "i">>,
       <<"mean_motion3", "i">>, <<None, "108x">>, <<"data_type", "4s", "bytes.decode">>,
       <<"ascending_lt", "i">>, <<"first_scan", "i">>, <<"first_scan_time", "i">>,
       <<"scan_flipped", "i">>, <<"element_flipped", "i">>, <<None, "4x">>,
       <<"elem_per_scan", "i">>, <<None, "272x">>, <<"ascii_record", "32s",
       "_decode_strip">> >>

nav_GOES ==
    << <<"satellite_date", "i">>, <<"image_time", "i">>, <<"orbit_type", "i">>,
       <<"epoch_date", "i">>, <<"epoch_time", "i">>, <<"semimajor_axis", "i">>,
       <<"eccentricity", "i">>, <<"inclination", "i">>, <<"mean_anomaly", "i">>,
       <<"perigee", "i">>, <<"right_ascension", "i">>, <<"declination", "i">>,
       <<"right_ascension_sat", "i">>, <<"center_line", "i">>, <<"spin_period", "i">>,
       <<"sweep_anlge_line", "i">>, <<"scan_lines", "i">>, <<"sensors", "i">>,
       <<"lines", "i">>, <<"sweep_angle_element", "i">>, <<"elements", "i">>, <<"pitch",
       "i">>, <<"yaw", "i">>, <<"roll", "i">>, <<None, "4x">>, <<"east_west_adjust",
       "i">>, <<"asjust_time", "i">>, <<None, "4x">>, <<"sensor_angle_delta", "i">>,
       <<"skew", "i">>, <<None, "4x">>, <<"first_beta_line", "i">>,
       <<"first_beta_time1", "i">>, <<"first_beta_time2", "i">>, <<"beta_count1", "i">>,
       <<"second_beta_line", "i">>, <<"second_beta_time1", "i">>, <<"second_beta_time2",
       "i">>, <<"beta_count2", "i">>, <<"gamma_offset", "i">>, <<"time_zero", "i">>,
       <<"gamma_dot", "i">>, <<None, "4x">>, <<"memo", "32s", "_decode_strip">> >>

nav_GVAR ==
    << <<"memo", "4s", "_decode_strip">>, <<"scan_status1", "i">>, <<"scan_status2",
       "i">>, <<None, "4x">>, <<"ref_longitude", "i">>, <<"ref_dist_from_nominal",
       "i">>, <<"ref_latitude", "i">>, <<"ref_yaw", "i">>, <<"ref_attitude_roll", "i">>,
       <<"ref_attitude_pitch", "i">>, <<"ref_attitude_yaw", "i">>, <<"epoch_date",
       "i">>, <<"epoch_time", "i">>, <<"epoch_delta", "i">>, <<"image_motion_comp_roll",
       "i">>, <<"image_motion_comp_pitch", "i">>, <<"image_motion_comp_yaw", "i">> >>
    \o repeat_format(<<"longitude_delta">>, "i", 13, None)
    \o repeat_format(<<"radial_dist_delta">>, "i", 11, None)
    \o repeat_format(<<"sin_geocentric_lat_delta">>, "i", 9, None)
    \o repeat_format(<<"sin_orbit_yaw_delta">>, "i", 9, None)
    \o << <<"daily_solar_rate", "i">>, <<"exp_start_time", "i">>, <<"roll_exp_magnitude",
       "i">>, <<"roll_exp_time_const", "i">>, <<"roll_mean_attitude", "i">>,
       <<"roll_num_sin", "i">> >>
    \o repeat_format(<<"roll_sin_mag", "roll_phase_sin">>, "i", 15, None)
    \o << <<"roll_num_mono_sin", "i">> >>
    \o repeat_format(<<"roll_order_app_sin", "roll_order_mono_sin",
         "roll_magnitude_mono_sin", "roll_phase_mono_sin", "roll_angle_from_epoch">>, "i",
         4, None)
    \o << <<None, "48x">>, <<"pitch_exp_magnitude", "i">>, <<"pitch_exp_time_const", "i">>,
       <<"pitch_mean_attitude", "i">>, <<"pitch_num_sin", "i">> >>
    \o repeat_format(<<"pitch_sin_mag", "pitch_phase_sin">>, "i", 15, None)
    \o << <<"pitch_num_mono_sin", "i">> >>
    \o repeat_format(<<"pitch_order_app_sin", "pitch_order_mono_sin",
         "pitch_magnitude_mono_sin", "pitch_phase_mono_sin", "pitch_angle_from_epoch">>,
         "i", 4, None)
    \o << <<"yaw_exp_magnitude", "i">>, <<"yaw_exp_time_const", "i">>,
       <<"yaw_mean_attitude", "i">>, <<"yaw_num_sin", "i">> >>
    \o repeat_format(<<"yaw_sin_mag", "yaw_phase_sin">>, "i", 15, None)
    \o << <<"yaw_num_mono_sin", "i">> >>
    \o repeat_format(<<"yaw_order_app_sin", "yaw_order_mono_sin",
         "yaw_magnitude_mono_sin", "yaw_phase_mono_sin", "yaw_angle_from_epoch">>, "i", 4,
         None)
    \o << <<None, "72x">>, <<"pitch_misalign_exp_magnitude", "i">>,
       <<"pitch_misalign_exp_time_const", "i">>, <<"pitch_misalign_mean_attitude",
       "i">>, <<"pitch_misalign_num_sin", "i">> >>
    \o repeat_format(<<"pitch_misalign_sin_mag", "pitch_misalign_phase_sin">>, "i", 15,
         None)
    \o << <<"pitch_misalign_num_mono_sin", "i">> >>
    \o repeat_format(<<"pitch_misalign_order_app_sin", "pitch_misalign_order_mono_sin",
         "pitch_misalign_magnitude_mono_sin", "pitch_misalign_phase_mono_sin",
         "pitch_misalign_angle_from_epoch">>, "i", 4, None)
    \o << <<"yaw_misalign_exp_magnitude", "i">>, <<"yaw_misalign_exp_time_const", "i">>,
       <<"yaw_misalign_mean_attitude", "i">>, <<"yaw_misalign_num_sin", "i">> >>
    \o repeat_format(<<"yaw_misalign_sin_mag", "yaw_misalign_phase_sin">>, "i", 15,
         None)
    \o << <<"yaw_misalign_num_mono_sin", "i">> >>
    \o repeat_format(<<"yaw_misalign_order_app_sin", "yaw_misalign_order_mono_sin",
         "yaw_misalign_magnitude_mono_sin", "yaw_misalign_phase_mono_sin",
         "yaw_misalign_angle_from_epoch">>, "i", 4, None)
    \o << <<"julian_date", "i">>, <<"image_start_time", "i">>, <<"instrument_flag", "i">>,
       <<None, "36x">>, <<"nadir_ns", "i">>, <<"nadir_ew", "i">>, <<"nadir_ns_inc",
       "i">>, <<"nadir_ew_inc", "i">>, <<None, "1028x">> >>

nav_LALO ==
    << <<"navigation_source", "4s", "bytes.decode">>, <<None, "252x">>, <<"number_rows",
       "i">>, <<"number_elements", "i">>, <<"min_lat", "i">>, <<"min_lon", "i">>,
       <<"max_lat", "i">>, <<"max_lon", "i">>, <<"line_resolution", "i">>,
       <<"element_resolution", "i">>, <<"navigation_size", "i">>, <<"nav_data_size",
       "i">>, <<"top_line_numbner", "i">>, <<"left_element", "i">>, <<"block_size",
       "i">>, <<"lat_header_size", "i">>, <<"aux_lon_offset", "i">>, <<"dir_lat_offset",
       "i">>, <<"dir_lon_offset", "i">>, <<None, "184x">> >>

nav_LAMB ==
    << <<"image_pole_line", "i">>, <<"image_pole_element", "i">>, <<"standard_lat1",
       "i">>, <<"standard_lat2", "i">>, <<"standard_lat_resolution", "i">>,
       <<"central_lon", "i">>, <<"sphere_radius", "i">>, <<"sphere_eccentricity", "i">>,
       <<"coordinate_type", "i">>, <<"longitude_convention", "i">>, <<None, "436x">>,
       <<"memo", "32s", "_decode_strip">> >>

nav_MERC ==
    << <<"equator_line", "i">>, <<"central_lon_element", "i">>, <<"standard_lat", "i",
       "dms_to_decimal">>, <<"standard_lat_resolution", "i">>, <<"central_lon", "i",
       "dms_to_decimal">>, <<"sphere_radius", "i">>, <<"sphere_eccentricity", "i">>,
       <<"coordinate_type", "i">>, <<"longitude_convention", "i">>, <<None, "440x">>,
       <<"memo", "32s", "_decode_strip">> >>

nav_MSAT ==
    << <<"navigation_date", "i">>, <<"navigation_time", "i">>, <<"reference_position",
       "i">>, <<"ref_line", "i">>, <<"center_line", "i">>, <<"center_lon", "i">>,
       <<None, "8x">>, <<"navigation_date2", "i">>, <<None, "984x">> >>

nav_MSG ==
    << <<None, "508x">> >>

nav_PS ==
    << <<"image_pole_line", "i">>, <<"image_pole_element", "i">>, <<"standard_lat",
       "i">>, <<"standard_lat_resolution", "i">>, <<"central_lon", "i">>,
       <<"sphere_radius", "i">>, <<"sphere_eccentricity", "i">>, <<"coordinate_type",
       "i">>, <<"longitude_convention", "i">>, <<None, "440x">>, <<"memo", "32s",
       "_decode_strip">> >>

nav_RADR ==
    << <<"rda_row", "i">>, <<"rda_column", "i">>, <<"rda_lat", "i">>, <<"rda_lon",
       "i">>, <<"resolution", "i">>, <<"zenith_angle", "i">>, <<"longitude_resolution",
       "i">> >>

nav_RECT ==
    << <<"image_row_number", "i">>, <<"image_row_latitude", "i">>,
       <<"image_column_number", "i">>, <<"image_column_longitude", "i">>, <<"dy", "i">>,
       <<"dx", "i">>, <<"sphere_radius", "i">>, <<"sphere_eccentricity", "i">>,
       <<"coordinate_type", "i">>, <<"longitude_convention", "i">> >>

nav_TANC ==
    << <<"image_pole_line", "i">>, <<"image_pole_element", "i">>, <<"km_per_pixel",
       "i">>, <<"standard_lat", "i">>, <<"standard_lon", "i">>, <<None, "456x">>,
       <<"memo", "32s", "_decode_strip">> >>

nav_TIRO ==
    << <<"source_date", "i">>, <<"navigation_time", "i">>, <<"orbit_type", "i">>,
       <<"epoch_date", "i">>, <<"epoch_time", "i">>, <<"semimajor_axis", "i">>,
       <<"eccentricity", "i">>, <<"inclination", "i">>, <<"mean_anomaly", "i">>,
       <<"perigee", "i">>, <<"right_ascension", "i">>, <<"samples_per_line", "i">>,
       <<"angular_increment", "i">>, <<"fraction_seconds", "i">>, <<None, "120x">>,
       <<"pass_type", "i">>, <<"first_line_coord", "i">>, <<"first_line_time", "i">>,
       <<"line_interval1", "i">>, <<"inverted", "i">>, <<"inverted_lines", "i">>,
       <<"inverted_elements", "i">>, <<"line_interval2", "i">>, <<"data_interval",
       "i">>, <<None, "264x">>, <<"comments", "32s", "_decode_strip">> >>

\* The keys of the navigation_format dict.
navigation_keys ==
    {"DMSP", "GOES", "GVAR", "LALO", "LAMB", "MERC", "MSAT", "MSG ", "PS  ", "RADR",
     "RECT", "TANC", "TIRO"}

navigation_format(tag) ==
    CASE tag = "DMSP" -> nav_DMSP
      [] tag = "GOES" -> nav_GOES
      [] tag = "GVAR" -> nav_GVAR
      [] tag = "LALO" -> nav_LALO
      [] tag = "LAMB" -> nav_LAMB
      [] tag = "MERC" -> nav_MERC
      [] tag = "MSAT" -> nav_MSAT
      [] tag = "MSG " -> nav_MSG
      [] tag = "PS  " -> nav_PS
      [] tag = "RADR" -> nav_RADR
      [] tag = "RECT" -> nav_RECT
      [] tag = "TANC" -> nav_TANC
      [] tag = "TIRO" -> nav_TIRO

\* A lookup that answers an unknown tag with an empty table instead of raising.
_get_navigation_format_default(tag) ==
    IF tag \in navigation_keys
    THEN [err |-> NoError, val |-> navigation_format(tag)]
    ELSE [err |-> NoError, val |-> << >>]

\* A lookup that ignores the case of the tag's letters.
_get_navigation_format_nocase(tag) ==
    IF tag \in navigation_keys
    THEN [err |-> NoError, val |-> navigation_format(tag)]
    ELSE IF tag = "rect"
    THEN [err |-> NoError, val |-> navigation_format("RECT")]
    ELSE [err |-> [type |-> "NotImplementedError", text |-> "No format for navigation type",
                   names |-> tag],
          val |-> None]

\* AreaFile._get_navigation_format: the table, or NotImplementedError naming the tag.
_get_navigation_format(tag) ==
    IF tag \in navigation_keys
    THEN [err |-> NoError, val |-> navigation_format(tag)]
    ELSE [err |-> [type |-> "NotImplementedError", text |-> "No format for navigation type",
                   names |-> tag],
          val |-> None]

(***************************************************************************)
(* The byte stream and the field-table decoder (IOBuffer and NamedStruct   *)
(* of metpy.io._tools, which mcidas.py imports).  Every read needs its     *)
(* bytes to be there: the stream fails with TruncatedInput, the table      *)
(* decoder with FormatError.                                               *)
(***************************************************************************)
\* read(num_bytes) at cursor off.
read(buf, off, num_bytes) ==
    IF off < 0 \/ num_bytes < 0 \/ off + num_bytes > Len(buf)
    THEN [err |-> Exc("TruncatedInput", "source ends early", None),
          val |-> None, offset |-> off]
    ELSE [err |-> NoError, val |-> SubSeq(buf, off + 1, off + num_bytes),
          offset |-> off + num_bytes]

read_binary(buf, off, num_items) == read(buf, off, num_items)

read_ascii(buf, off, num_bytes) ==
    LET r == read(buf, off, num_bytes)
    IN  IF Failed(r) THEN r ELSE [r EXCEPT !.val = Decode(r.val)]

read_int(buf, off, size, order, signed) ==
    LET r == read(buf, off, size)
    IN  IF Failed(r) THEN r ELSE [r EXCEPT !.val = from_bytes(r.val, order, signed)]

\* read_array(count, dtype): count elements of width bytes in the dtype's byte order.
read_array(buf, off, count, width, order, signed) ==
    LET r == read(buf, off, count * width)
    IN  IF Failed(r) THEN r
        ELSE [r EXCEPT !.val =
                 [k \in 1..count |->
                     FixedInt(SubSeq(r.val, (k - 1) * width + 1, k * width),
                              order, signed)]]

\* The byte order a struct prefix or numpy byte-order character selects.
ByteOrderOf(prefix) ==
    CASE prefix = ">" -> "big"
      [] prefix = "<" -> "little"
      [] OTHER -> host

\* struct.calcsize of the formats of entries lo..hi of a table.
RECURSIVE SizeOfRange(_, _, _)
SizeOfRange(table, lo, hi) ==
    IF lo > hi THEN 0
    ELSE IF lo = hi THEN StructSize(table[lo][2])
    ELSE LET mid == (lo + hi) \div 2
         IN  SizeOfRange(table, lo, mid) + SizeOfRange(table, mid + 1, hi)

TableSize(table) == SizeOfRange(table, 1, Len(table))

\* The transform named in a table entry, applied to the raw value.
ApplyCall(entry, raw) ==
    IF Len(entry) < 3 THEN raw
    ELSE CASE entry[3] = "_decode_strip" -> _decode_strip(raw)
           [] entry[3] = "bytes.decode" -> Decode(raw)
           [] entry[3] = "dms_to_decimal" -> dms_to_decimal(raw)

\* One entry decoded from position off: <<name, value>>, or nothing for padding.
UnpackEntry(buf, entry, order, off) ==
    LET bytes == SubSeq(buf, off + 1, off + StructSize(entry[2]))
        raw == IF StructKind(entry[2]) = "i" THEN FixedInt(bytes, order, TRUE) ELSE bytes
    IN  IF entry[1] = None THEN << >> ELSE << <<entry[1], ApplyCall(entry, raw)>> >>

\* Entries lo..hi of a table decoded in declaration order from position off on:
\* a sequence of <<name, value>>; padding is consumed and not stored.
RECURSIVE UnpackFrom(_, _, _, _, _, _)
UnpackFrom(buf, table, lo, hi, order, off) ==
    IF lo > hi THEN << >>
    ELSE IF lo = hi THEN UnpackEntry(buf, table[lo], order, off)
    ELSE LET mid == (lo + hi) \div 2
         IN  UnpackFrom(buf, table, lo, mid, order, off)
             \o UnpackFrom(buf, table, mid + 1, hi, order,
                           off + SizeOfRange(table, lo, mid))

\* read_struct(NamedStruct(table, prefmt, ...)) at cursor off.
read_struct(buf, off, table, prefix) ==
    IF off < 0 \/ off + TableSize(table) > Len(buf)
    THEN [err |-> Exc("FormatError", "stream exhausted in table", None),
          val |-> None, offset |-> off]
    ELSE [err |-> NoError, val |-> UnpackFrom(buf, table, 1, Len(table), ByteOrderOf(prefix), off),
          offset |-> off + TableSize(table)]

\* block.name of a decoded record.
Field(block, name) ==
    block[CHOOSE k \in 1..Len(block) : block[k][1] = name][2]

FieldNames(block) == [k \in 1..Len(block) |-> block[k][1]]

(***************************************************************************)
(* AreaFile._set_extent.                                                   *)
(***************************************************************************)
\* Affine2D().scale(sx, sy).translate(tx, ty).to_values(): (a, b, c, d, e, f) of
\*     x' = a*x + c*y + e,   y' = b*x + d*y + f.
AffineValues(sx, sy, tx, ty) == <<sx, Int2Rat(0), Int2Rat(0), sy, tx, ty>>

\* Lines 649-650: the special case, returned in the order of line 660.
CheapExtent(v, nx, ny) ==
    LET a == v[1]  d == v[4]  e == v[5]  f == v[6]
        west == e
        south == RAdd(f, RMul(d, Int2Rat(ny)))
        east == RAdd(e, RMul(a, Int2Rat(nx)))
        north == f
    IN  <<west, east, south, north>>

\* The general branch over the corners of the pixel grid, (nx - 1, ny - 1) the last.
GeneralExtent_grid(v, nx, ny) ==
    LET a == v[1]  b == v[2]  c == v[3]  d == v[4]  e == v[5]  f == v[6]
        X(px, py) == RAdd(RAdd(RMul(Int2Rat(px), a), RMul(Int2Rat(py), c)), e)
        Y(px, py) == RAdd(RAdd(RMul(Int2Rat(px), b), RMul(Int2Rat(py), d)), f)
        xs == {e, X(0, ny - 1), X(nx - 1, ny - 1), X(nx - 1, 0)}
        ys == {f, Y(0, ny - 1), Y(nx - 1, ny - 1), Y(nx - 1, 0)}
    IN  <<RMin(xs), RMax(xs), RMin(ys), RMax(ys)>>

\* Lines 651-658: min/max over the four transformed image corners.
GeneralExtent(v, nx, ny) ==
    LET a == v[1]  b == v[2]  c == v[3]  d == v[4]  e == v[5]  f == v[6]
        X(px, py) == RAdd(RAdd(RMul(Int2Rat(px), a), RMul(Int2Rat(py), c)), e)
        Y(px, py) == RAdd(RAdd(RMul(Int2Rat(px), b), RMul(Int2Rat(py), d)), f)
        xs == {e, X(0, ny), X(nx, ny), X(nx, 0)}
        ys == {f, Y(0, ny), Y(nx, ny), Y(nx, 0)}
    IN  <<RMin(xs), RMax(xs), RMin(ys), RMax(ys)>>

\* Line 649: b == e == 0 is (b == e) and (e == 0).
TakesCheapBranch(v) == v[2] = v[5] /\ v[5] = Int2Rat(0)

_set_extent(origin, dx, dy, nx, ny) ==
    LET affine == AffineValues(dx, RNeg(dy), origin[1], origin[2])
    IN  IF TakesCheapBranch(affine) THEN CheapExtent(affine, nx, ny)
        ELSE GeneralExtent(affine, nx, ny)

(***************************************************************************)
(* AreaFile._set_georeference.                                             *)
(***************************************************************************)
\* np.arange(n)
\* Pixel indices counted from one.
arange_from_one(n) == [k \in 1..n |-> k]

arange(n) == [k \in 1..n |-> k - 1]

\* np.meshgrid(xs, ys): the two (len(ys), len(xs)) grids.
MeshX(xs, ys) == [r \in 1..Len(ys) |-> xs]
MeshY(xs, ys) == [r \in 1..Len(ys) |-> [c \in 1..Len(xs) |-> ys[r]]]

\* pyproj.Proj(crs)(x, y, inverse=True) is the library's: left uninterpreted.
InverseProj(crs, axis, xv, yv) == [inverse |-> crs.proj, axis |-> axis, x |-> xv, y |-> yv]

E4 == Int2Rat(10000)
E6 == Int2Rat(1000000)

ZeroDivision == Exc("ZeroDivisionError", "division by zero", None)

\* The RECT branch with the finer scale taken from 10000 on.
GeorefRECT_inclusive(dir, nav) ==
    LET yres == Field(dir, "line_resolution")
        xres == Field(dir, "element_resolution")
        origin_line == Field(dir, "upper_left_line_coordinate")
        origin_elem == Field(dir, "upper_left_image_element")
        ny == Field(dir, "image_lines")
        nx == Field(dir, "data_per_line")
        dx == IF Field(nav, "dx") >= 10000 THEN RDiv(Int2Rat(Field(nav, "dx")), E6)
              ELSE RDiv(Int2Rat(Field(nav, "dx")), E4)
        dy == IF Field(nav, "dy") >= 10000 THEN RDiv(Int2Rat(Field(nav, "dy")), E6)
              ELSE RDiv(Int2Rat(Field(nav, "dy")), E4)
        diff_y == Rat(Field(nav, "image_row_number") - origin_line, yres)
        diff_x == Rat(Field(nav, "image_column_number") - origin_elem, xres)
        base_lat == RDiv(Int2Rat(Field(nav, "image_row_latitude")), E4)
        lon == RDiv(Int2Rat(Field(nav, "image_column_longitude")), E4)
        base_lon == IF Field(nav, "longitude_convention") >= 0 THEN RNeg(lon) ELSE lon
        origin_lat == RAdd(base_lat, RMul(diff_y, dy))
        origin_lon == RSub(base_lon, RMul(diff_x, dx))
        x == arange(nx)
        y == arange(ny)
        lon1d == [c \in 1..Len(x) |-> RAdd(origin_lon, RMul(Int2Rat(x[c]), dx))]
        lat1d == [r \in 1..Len(y) |-> RSub(origin_lat, RMul(Int2Rat(y[r]), dy))]
    IN  IF yres = 0 \/ xres = 0 THEN [err |-> ZeroDivision, val |-> None]
        ELSE [err |-> NoError,
              val |-> [x |-> x, y |-> y,
                       lons |-> MeshX(lon1d, lat1d), lats |-> MeshY(lon1d, lat1d),
                       crs |-> [proj |-> "longlat",
                                R |-> Field(nav, "sphere_radius"),
                                e |-> RDiv(Int2Rat(Field(nav, "sphere_eccentricity")), E6)],
                       origin |-> <<origin_lon, origin_lat>>, dx |-> dx, dy |-> dy,
                       extent |-> _set_extent(<<origin_lon, origin_lat>>, dx, dy, nx, ny),
                       is_projected |-> FALSE]]

\* Lines 674-722.
GeorefRECT(dir, nav) ==
    LET yres == Field(dir, "line_resolution")
        xres == Field(dir, "element_resolution")
        origin_line == Field(dir, "upper_left_line_coordinate")
        origin_elem == Field(dir, "upper_left_image_element")
        ny == Field(dir, "image_lines")
        nx == Field(dir, "data_per_line")
        dx == IF Field(nav, "dx") > 10000 THEN RDiv(Int2Rat(Field(nav, "dx")), E6)
              ELSE RDiv(Int2Rat(Field(nav, "dx")), E4)
        dy == IF Field(nav, "dy") > 10000 THEN RDiv(Int2Rat(Field(nav, "dy")), E6)
              ELSE RDiv(Int2Rat(Field(nav, "dy")), E4)
        diff_y == Rat(Field(nav, "image_row_number") - origin_line, yres)
        diff_x == Rat(Field(nav, "image_column_number") - origin_elem, xres)
        base_lat == RDiv(Int2Rat(Field(nav, "image_row_latitude")), E4)
        lon == RDiv(Int2Rat(Field(nav, "image_column_longitude")), E4)
        base_lon == IF Field(nav, "longitude_convention") >= 0 THEN RNeg(lon) ELSE lon
        origin_lat == RAdd(base_lat, RMul(diff_y, dy))
        origin_lon == RSub(base_lon, RMul(diff_x, dx))
        x == arange(nx)
        y == arange(ny)
        lon1d == [c \in 1..Len(x) |-> RAdd(origin_lon, RMul(Int2Rat(x[c]), dx))]
        lat1d == [r \in 1..Len(y) |-> RSub(origin_lat, RMul(Int2Rat(y[r]), dy))]
    IN  IF yres = 0 \/ xres = 0 THEN [err |-> ZeroDivision, val |-> None]
        ELSE [err |-> NoError,
              val |-> [x |-> x, y |-> y,
                       lons |-> MeshX(lon1d, lat1d), lats |-> MeshY(lon1d, lat1d),
                       crs |-> [proj |-> "longlat",
                                R |-> Field(nav, "sphere_radius"),
                                e |-> RDiv(Int2Rat(Field(nav, "sphere_eccentricity")), E6)],
                       origin |-> <<origin_lon, origin_lat>>, dx |-> dx, dy |-> dy,
                       extent |-> _set_extent(<<origin_lon, origin_lat>>, dx, dy, nx, ny),
                       is_projected |-> FALSE]]

\* Lines 723-760.
GeorefMERC(dir, nav) ==
    LET yres == Field(dir, "line_resolution")
        xres == Field(dir, "element_resolution")
        origin_line == Field(dir, "upper_left_line_coordinate")
        origin_elem == Field(dir, "upper_left_image_element")
        ny == Field(dir, "image_lines")
        nx == Field(dir, "data_per_line")
        lat_ts == Field(nav, "standard_lat")
        lat_ts_res == Field(nav, "standard_lat_resolution")
        lon == Field(nav, "central_lon")
        diff_y == Rat(Field(nav, "equator_line") - origin_line, yres)
        diff_x == Rat(Field(nav, "central_lon_element") - origin_elem, xres)
        dx == Int2Rat(lat_ts_res * xres)
        dy == Int2Rat(lat_ts_res * yres)
        lon_0 == IF Field(nav, "longitude_convention") >= 0 THEN RNeg(lon) ELSE lon
        crs == [proj |-> "merc", R |-> Field(nav, "sphere_radius"),
                e |-> RDiv(Int2Rat(Field(nav, "sphere_eccentricity")), E6),
                lat_ts |-> lat_ts, lon_0 |-> lon_0]
        origin_x == RMul(RNeg(diff_x), dx)
        origin_y == RMul(diff_y, dy)
        x == [c \in 1..nx |-> Trunc(RAdd(origin_x, RMul(Int2Rat(c - 1), dx)))]
        y == [r \in 1..ny |-> Trunc(RSub(origin_y, RMul(Int2Rat(r - 1), dy)))]
    IN  IF yres = 0 \/ xres = 0 THEN [err |-> ZeroDivision, val |-> None]
        ELSE [err |-> NoError,
              val |-> [x |-> x, y |-> y,
                       lons |-> [r \in 1..Len(y) |->
                                    [c \in 1..Len(x) |-> InverseProj(crs, "lon", x[c], y[r])]],
                       lats |-> [r \in 1..Len(y) |->
                                    [c \in 1..Len(x) |-> InverseProj(crs, "lat", x[c], y[r])]],
                       crs |-> crs,
                       origin |-> <<origin_x, origin_y>>, dx |-> dx, dy |-> dy,
                       extent |-> _set_extent(<<origin_x, origin_y>>, dx, dy, nx, ny),
                       is_projected |-> TRUE]]

\* Lines 761-798.  pole_y is proj(lon_0, 90)[1], the library's forward projection
\* of the pole: an input of the model.
GeorefTANC(dir, nav, pole_y) ==
    LET yres == Field(dir, "line_resolution")
        xres == Field(dir, "element_resolution")
        origin_line == Field(dir, "upper_left_line_coordinate")
        origin_elem == Field(dir, "upper_left_image_element")
        ny == Field(dir, "image_lines")
        nx == Field(dir, "data_per_line")
        lon_0 == RNeg(RDiv(Int2Rat(Field(nav, "standard_lon")), E4))
        lat_1 == RDiv(Int2Rat(Field(nav, "standard_lat")), E4)
        r_sphere == 6371100
        res == RMul(RDiv(Int2Rat(Field(nav, "km_per_pixel")), E4), Int2Rat(1000))
        pole_line == RDiv(Int2Rat(Field(nav, "image_pole_line")), E4)
        pole_element == RDiv(Int2Rat(Field(nav, "image_pole_element")), E4)
        diff_y == RDiv(RSub(pole_line, Int2Rat(origin_line)), Int2Rat(yres))
        diff_x == RDiv(RSub(pole_element, Int2Rat(origin_elem)), Int2Rat(xres))
        px == RMul(diff_x, res)
        py == RMul(diff_y, res)
        crs == [proj |-> "lcc", R |-> r_sphere, lat_0 |-> lat_1, lat_1 |-> lat_1,
                lat_2 |-> lat_1, lon_0 |-> lon_0]
        uly == RAdd(Int2Rat(pole_y), py)
        ulx == RNeg(px)
        x == [c \in 1..nx |-> Trunc(RAdd(ulx, RMul(Int2Rat(c - 1), res)))]
        y == [r \in 1..ny |-> Trunc(RSub(uly, RMul(Int2Rat(r - 1), res)))]
    IN  IF yres = 0 \/ xres = 0 THEN [err |-> ZeroDivision, val |-> None]
        ELSE [err |-> NoError,
              val |-> [x |-> x, y |-> y,
                       lons |-> [r \in 1..Len(y) |->
                                    [c \in 1..Len(x) |-> InverseProj(crs, "lon", x[c], y[r])]],
                       lats |-> [r \in 1..Len(y) |->
                                    [c \in 1..Len(x) |-> InverseProj(crs, "lat", x[c], y[r])]],
                       crs |-> crs,
                       origin |-> <<ulx, uly>>, dx |-> res, dy |-> res,
                       extent |-> _set_extent(<<ulx, uly>>, res, res, nx, ny),
                       is_projected |-> TRUE]]

\* The values proj(lon_0, 90)[1] may take for the TANC files.
PoleYs == {0, 2500000}

\* The navigation types with a branch in _set_georeference.
SupportedNav == {"RECT", "MERC", "TANC"}

\* A dispatch whose final branch returns without raising and without setting
\* any attribute.
_set_georeference_silent(nav_type, dir, nav, pole_y) ==
    CASE nav_type = "RECT" -> GeorefRECT(dir, nav[1])
      [] nav_type = "MERC" -> GeorefMERC(dir, nav[1])
      [] nav_type = "TANC" -> GeorefTANC(dir, nav[1], pole_y)
      [] OTHER -> [err |-> NoError,
                   val |-> [x |-> None, y |-> None, lons |-> None, lats |-> None,
                            crs |-> None, origin |-> None, dx |-> None, dy |-> None,
                            extent |-> None, is_projected |-> None]]

\* A dispatch that takes an absent navigation type for an image without
\* georeference and raises only for the types it has no branch for.
_set_georeference_absent_ok(nav_type, dir, nav, pole_y) ==
    CASE nav_type = "RECT" -> GeorefRECT(dir, nav[1])
      [] nav_type = "MERC" -> GeorefMERC(dir, nav[1])
      [] nav_type = "TANC" -> GeorefTANC(dir, nav[1], pole_y)
      [] nav_type = None -> [err |-> NoError,
                             val |-> [x |-> None, y |-> None, lons |-> None,
                                      lats |-> None, crs |-> None, origin |-> None,
                                      dx |-> None, dy |-> None, extent |-> None,
                                      is_projected |-> None]]
      [] OTHER -> [err |-> Exc("NotImplementedError",
                               "navigation not currently supported", nav_type),
                   val |-> None]

_set_georeference(nav_type, dir, nav, pole_y) ==
    CASE nav_type = "RECT" -> GeorefRECT(dir, nav[1])
      [] nav_type = "MERC" -> GeorefMERC(dir, nav[1])
      [] nav_type = "TANC" -> GeorefTANC(dir, nav[1], pole_y)
      [] OTHER -> [err |-> Exc("NotImplementedError",
                               "navigation not currently supported", nav_type),
                   val |-> None]

(***************************************************************************)
(* AreaFile._set_timestamp.                                                *)
(***************************************************************************)
IsLeap(year) == year % 4 = 0 /\ (year % 100 # 0 \/ year % 400 = 0)
DaysIn(year) == IF IsLeap(year) THEN 366 ELSE 365
AllDigits(chars) == \A k \in 1..Len(chars) : chars[k] # "-"

\* datetime.strptime(text, '%Y%j%H%M%S') of a 4-digit year followed by doy and
\* tstr: the directives take 3, 2, 2 and 2 digits, %j accepts 001..366, and a %j
\* beyond the year's last day is counted on from January 1st into the next year.
strptime(year, doy, tstr) ==
    LET jul == ParseInt(doy)
        hh == ParseInt(SubSeq(tstr, 1, 2))
        mm == ParseInt(SubSeq(tstr, 3, 4))
        ss == ParseInt(SubSeq(tstr, 5, 6))
    IN  IF Len(doy) # 3 \/ Len(tstr) # 6 \/ ~AllDigits(doy) \/ ~AllDigits(tstr)
           \/ jul < 1 \/ jul > 366 \/ hh > 23 \/ mm > 59 \/ ss > 59
        THEN [err |-> Exc("ValueError", "time data does not match format", None),
              val |-> None]
        ELSE [err |-> NoError,
              val |-> IF jul > DaysIn(year)
                      THEN [year |-> year + 1, yday |-> jul - DaysIn(year),
                            hour |-> hh, minute |-> mm, second |-> ss]
                      ELSE [year |-> year, yday |-> jul,
                            hour |-> hh, minute |-> mm, second |-> ss]]

\* A composition that takes the year offset from two digits of the date.
_set_timestamp_two_digit(dir) ==
    LET dstr == FormatInt(Field(dir, "date"), 6)
        tstr == FormatInt(Field(dir, "time"), 6)
        year == 1900 + ParseInt(SubSeq(dstr, 1, 2))
        doy == SubSeq(dstr, 3, Len(dstr))
    IN  strptime(year, doy, tstr)

_set_timestamp(dir) ==
    LET dstr == FormatInt(Field(dir, "date"), 6)
        tstr == FormatInt(Field(dir, "time"), 6)
        year == 1900 + ParseInt(SubSeq(dstr, 1, 3))
        doy == SubSeq(dstr, 4, Len(dstr))
    IN  strptime(year, doy, tstr)

(***************************************************************************)
(* AreaFile._swap_bytes.                                                   *)
(***************************************************************************)
\* struct.pack('@i', 4): the host's own encoding of the integer 4.
NativeFour == IntToBytes(4, 4, host)

\* A detection that never finds the file swapped.
_swap_bytes_never(binary) ==
    [swapped_bytes |-> FALSE, prefmt |-> "", endian |-> host]

_swap_bytes(binary) ==
    LET swapped == (NativeFour # binary)
    IN  IF swapped
        THEN IF host = "little"
             THEN [swapped_bytes |-> TRUE, prefmt |-> ">", endian |-> "big"]
             ELSE [swapped_bytes |-> TRUE, prefmt |-> "<", endian |-> "little"]
        ELSE [swapped_bytes |-> FALSE, prefmt |-> "", endian |-> host]

\* Lines 317-336 of __init__ as one function of the bytes of a record that starts
\* at position 0: the exception raised, if any, and the attributes set by then.
Header(buf) ==
    LET check == read_binary(buf, 0, 8)
        s == _swap_bytes(SubSeq(check.val, 5, 8))
        dir == read_struct(buf, 0, directory_format, s.prefmt)
        tag == read_ascii(buf, Field(dir.val, "navigation_offset"), 4)
        fmt == _get_navigation_format(tag.val)
        blk == read_struct(buf, tag.offset, fmt.val, s.prefmt)
        Got(err, d, nt, nb) ==
            [err |-> err, directory_block |-> d, navigation_type |-> nt,
             navigation_block |-> nb]
    IN  IF Failed(check) THEN Got(check.err, Unset, None, Unset)
        ELSE IF Failed(dir) THEN Got(dir.err, Unset, None, Unset)
        ELSE IF Field(dir.val, "navigation_offset") = 0
        THEN Got(NoError, dir.val, None, Unset)
        ELSE IF Failed(tag) THEN Got(tag.err, dir.val, None, Unset)
        ELSE IF Failed(fmt) THEN Got(fmt.err, dir.val, tag.val, Unset)
        ELSE IF Failed(blk) THEN Got(blk.err, dir.val, tag.val, Unset)
        ELSE Got(NoError, dir.val, tag.val, <<blk.val>>)

(***************************************************************************)
(* AreaFile.__init__, one action per stage.  An exception leaves the       *)
(* constructor at once: no later stage runs and the caller gets no object. *)
(***************************************************************************)
Raise(exc) ==
    /\ pc' = "failed"
    /\ error' = exc

\* A detection that decides on the first word, check[:4].
DetectByteOrder_first_word ==
    /\ pc = "detect"
    /\ start' = offset
    /\ stages' = Append(stages, "detect")
    /\ LET check == read_binary(file, offset, 8)
       IN  IF Failed(check)
           THEN /\ Raise(check.err)
                /\ UNCHANGED <<swapped_bytes, prefmt, endian, offset>>
           ELSE LET s == _swap_bytes(SubSeq(check.val, 1, 4))
                IN  /\ swapped_bytes' = s.swapped_bytes
                    /\ prefmt' = s.prefmt
                    /\ endian' = s.endian
                    /\ offset' = offset
                    /\ pc' = "directory"
                    /\ UNCHANGED error
    /\ UNCHANGED <<src, host, file, directory_block, navigation_type, navigation_block,
                   georef, timestamp, data, j, image, result, arg, out>>

\* Lines 317-321: mark the record start, read 8 bytes, decide on check[4:], rewind.
DetectByteOrder ==
    /\ pc = "detect"
    /\ start' = offset
    /\ stages' = Append(stages, "detect")
    /\ LET check == read_binary(file, offset, 8)
       IN  IF Failed(check)
           THEN /\ Raise(check.err)
                /\ UNCHANGED <<swapped_bytes, prefmt, endian, offset>>
           ELSE LET s == _swap_bytes(SubSeq(check.val, 5, 8))
                IN  /\ swapped_bytes' = s.swapped_bytes
                    /\ prefmt' = s.prefmt
                    /\ endian' = s.endian
                    /\ offset' = offset
                    /\ pc' = "directory"
                    /\ UNCHANGED error
    /\ UNCHANGED <<src, host, file, directory_block, navigation_type, navigation_block,
                   georef, timestamp, data, j, image, result, arg, out>>

\* Lines 323-325.
ReadDirectory ==
    /\ pc = "directory"
    /\ stages' = Append(stages, "directory")
    /\ LET r == read_struct(file, offset, directory_format, prefmt)
       IN  IF Failed(r)
           THEN Raise(r.err) /\ UNCHANGED <<directory_block, offset>>
           ELSE /\ directory_block' = r.val
                /\ offset' = r.offset
                /\ pc' = "navigation"
                /\ UNCHANGED error
    /\ UNCHANGED <<src, host, file, start, swapped_bytes, prefmt, endian, navigation_type,
                   navigation_block, georef, timestamp, data, j, image, result, arg, out>>

\* Lines 327-336.
ReadNavigation ==
    /\ pc = "navigation"
    /\ IF Field(directory_block, "navigation_offset") # 0
       THEN LET at == start + Field(directory_block, "navigation_offset")
                tag == read_ascii(file, at, 4)
                fmt == _get_navigation_format(tag.val)
                blk == read_struct(file, tag.offset, fmt.val, prefmt)
            IN  /\ stages' = Append(stages, "navigation")
                /\ IF Failed(tag)
                   THEN /\ Raise(tag.err)
                        /\ offset' = at
                        /\ UNCHANGED <<navigation_type, navigation_block>>
                   ELSE IF Failed(fmt)
                   THEN /\ Raise(fmt.err)
                        /\ offset' = tag.offset
                        /\ navigation_type' = tag.val
                        /\ UNCHANGED navigation_block
                   ELSE IF Failed(blk)
                   THEN /\ Raise(blk.err)
                        /\ offset' = tag.offset
                        /\ navigation_type' = tag.val
                        /\ UNCHANGED navigation_block
                   ELSE /\ navigation_type' = tag.val
                        /\ navigation_block' = <<blk.val>>
                        /\ offset' = blk.offset
                        /\ pc' = "georeference"
                        /\ UNCHANGED error
       ELSE /\ navigation_type' = None
            /\ pc' = "georeference"
            /\ stages' = Append(stages, "navigation")
            /\ UNCHANGED <<navigation_block, offset, error>>
    /\ UNCHANGED <<src, host, file, start, swapped_bytes, prefmt, endian, directory_block,
                   georef, timestamp, data, j, image, result, arg, out>>

\* A georeference stage whose exception is swallowed: the timestamp stage follows.
SetGeoreference_continue ==
    /\ pc = "georeference"
    /\ stages' = Append(stages, "georeference")
    /\ \E pole_y \in (IF navigation_type = "TANC" THEN PoleYs ELSE {0}) :
          LET g == _set_georeference(navigation_type, directory_block,
                                     navigation_block, pole_y)
          IN  IF Failed(g)
              THEN UNCHANGED georef
              ELSE georef' = <<g.val>>
    /\ pc' = "timestamp"
    /\ UNCHANGED <<src, host, file, offset, start, swapped_bytes, prefmt, endian,
                   directory_block, navigation_type, navigation_block, timestamp,
                   data, j, image, result, error, arg, out>>

\* Line 338.
SetGeoreference ==
    /\ pc = "georeference"
    /\ stages' = Append(stages, "georeference")
    /\ \E pole_y \in (IF navigation_type = "TANC" THEN PoleYs ELSE {0}) :
          LET g == _set_georeference(navigation_type, directory_block,
                                     navigation_block, pole_y)
          IN  IF Failed(g)
              THEN Raise(g.err) /\ UNCHANGED georef
              ELSE georef' = <<g.val>> /\ pc' = "timestamp" /\ UNCHANGED error
    /\ UNCHANGED <<src, host, file, offset, start, swapped_bytes, prefmt, endian,
                   directory_block, navigation_type, navigation_block, timestamp,
                   data, j, image, result, arg, out>>

\* Line 340.
SetTimestamp ==
    /\ pc = "timestamp"
    /\ stages' = Append(stages, "timestamp")
    /\ LET t == _set_timestamp(directory_block)
       IN  IF Failed(t)
           THEN Raise(t.err) /\ UNCHANGED timestamp
           ELSE timestamp' = <<t.val>> /\ pc' = "data" /\ UNCHANGED error
    /\ UNCHANGED <<src, host, file, offset, start, swapped_bytes, prefmt, endian,
                   directory_block, navigation_type, navigation_block, georef,
                   data, j, image, result, arg, out>>

(***************************************************************************)
(* AreaFile._get_data (line 342 of __init__).                              *)
(***************************************************************************)
\* Lines 380-382: np.dtype(f'u{bytes_per_point}'); the dtype returned by
\* data_dtype.newbyteorder(self.prefmt) is dropped, so data_dtype keeps the
\* host's byte order.
data_dtype_order(pfx) == host

\* Lines 393-395: dtype = dtype.newbyteorder(self.prefmt) is kept.
prefix_dtype_order(pfx) == ByteOrderOf(pfx)

\* The seek of line 371 taken from the wrong directory word.
data_ptr_navigation == Field(directory_block, "navigation_offset")

\* Line 371.
data_ptr == Field(directory_block, "data_offset")

\* Lines 371-383: seek to the data block and allocate the zero array.
GetDataStart ==
    /\ pc = "data"
    /\ stages' = Append(stages, "data")
    /\ LET ny == Field(directory_block, "image_lines")
           nx == Field(directory_block, "data_per_line")
       IN  IF Field(directory_block, "bytes_per_point") \notin {1, 2, 4, 8}
           THEN /\ Raise(Exc("TypeError", "data type not understood", None))
                /\ UNCHANGED <<data, j>>
           ELSE IF ny < 0 \/ nx < 0
           THEN /\ Raise(Exc("ValueError", "negative dimensions are not allowed", None))
                /\ UNCHANGED <<data, j>>
           ELSE /\ data' = [r \in 1..ny |-> Zeros(nx)]
                /\ j' = 0
                /\ pc' = "rows"
                /\ UNCHANGED error
    /\ offset' = start + data_ptr
    /\ UNCHANGED <<src, host, file, start, swapped_bytes, prefmt, endian,
                   directory_block, navigation_type, navigation_block, georef, timestamp,
                   image, result, arg, out>>

\* The reads of one pass of the loop, lines 386-405: the cursor after them, whether
\* the row was skipped, and the samples read.
ReadRow(off) ==
    LET dir == directory_block
        nx == Field(dir, "data_per_line")
        width == Field(dir, "bytes_per_point")
        val_code == read_int(file, off, 4, endian, FALSE)
        docs == read_ascii(file, val_code.offset, Field(dir, "prefix_doc_length"))
        cal == read_array(file, docs.offset, Field(dir, "prefix_calibration_length"), 4,
                          prefix_dtype_order(prefmt), TRUE)
        bands == read_array(file, cal.offset, Field(dir, "prefix_band_length"), 4,
                            prefix_dtype_order(prefmt), TRUE)
        after == IF Field(dir, "line_prefix_length") # 0 THEN bands.offset ELSE off
        buffer == read_array(file, after, nx, width, data_dtype_order(prefmt), FALSE)
        Fail(r) == [err |-> r.err, skipped |-> FALSE, val |-> None, offset |-> r.offset]
    IN  IF Field(dir, "line_prefix_length") # 0 /\ Failed(val_code) THEN Fail(val_code)
        ELSE IF Field(dir, "line_prefix_length") # 0
                /\ ~PyIntEquals(val_code.val, Field(dir, "validity_code"))
        THEN [err |-> NoError, skipped |-> TRUE, val |-> None, offset |-> val_code.offset]
        ELSE IF Field(dir, "line_prefix_length") # 0 /\ Failed(docs) THEN Fail(docs)
        ELSE IF Field(dir, "line_prefix_length") # 0 /\ Failed(cal) THEN Fail(cal)
        ELSE IF Field(dir, "line_prefix_length") # 0 /\ Failed(bands) THEN Fail(bands)
        ELSE IF Failed(buffer) THEN Fail(buffer)
        ELSE [err |-> NoError, skipped |-> FALSE, val |-> buffer.val,
              offset |-> buffer.offset]

\* A pass of the loop that catches a failed read, leaves the row zero and goes on.
GetDataRow_keep_going ==
    /\ pc = "rows"
    /\ j < Field(directory_block, "image_lines")
    /\ stages' = Append(stages, "row")
    /\ LET r == ReadRow(offset)
       IN  /\ offset' = r.offset
           /\ data' = IF Failed(r) \/ r.skipped THEN data ELSE [data EXCEPT ![j + 1] = r.val]
           /\ j' = j + 1
           /\ UNCHANGED <<pc, error>>
    /\ UNCHANGED <<src, host, file, start, swapped_bytes, prefmt, endian,
                   directory_block, navigation_type, navigation_block, georef, timestamp,
                   image, result, arg, out>>

\* Lines 385-406: one pass of the loop over the rows.
GetDataRow ==
    /\ pc = "rows"
    /\ j < Field(directory_block, "image_lines")
    /\ stages' = Append(stages, "row")
    /\ LET r == ReadRow(offset)
       IN  /\ offset' = r.offset
           /\ IF Failed(r)
              THEN Raise(r.err) /\ UNCHANGED <<data, j>>
              ELSE /\ data' = IF r.skipped THEN data ELSE [data EXCEPT ![j + 1] = r.val]
                   /\ j' = j + 1
                   /\ UNCHANGED <<pc, error>>
    /\ UNCHANGED <<src, host, file, start, swapped_bytes, prefmt, endian,
                   directory_block, navigation_type, navigation_block, georef, timestamp,
                   image, result, arg, out>>

\* Line 408, and the constructor returning the object to its caller.
GetDataEnd ==
    /\ pc = "rows"
    /\ j = Field(directory_block, "image_lines")
    /\ image' = <<data>>
    /\ pc' = "done"
    /\ result' = << [image |-> data, crs |-> georef[1].crs,
                     extent |-> georef[1].extent, timestamp |-> timestamp[1],
                     x |-> georef[1].x, y |-> georef[1].y,
                     lons |-> georef[1].lons, lats |-> georef[1].lats] >>
    /\ UNCHANGED <<src, host, file, offset, start, swapped_bytes, prefmt, endian,
                   directory_block, navigation_type, navigation_block, georef, timestamp,
                   data, j, error, stages, arg, out>>

(***************************************************************************)
(* The files handed to the decoder.  A file is written from a parameter    *)
(* record p in the AREA layout: the 256-byte directory, the navigation tag *)
(* and block, then the rows (validity code, blank prefix, samples), all     *)
(* integers in the byte order p.order; p.keep > 0 cuts the file short.     *)
(***************************************************************************)
MaxLines == 3
MaxElems == 2

Hosts == {"little", "big"}
Orders == {"little", "big"}

ValueOf(values, name, default) ==
    IF name \in DOMAIN values THEN values[name] ELSE default

\* struct.pack of one entry: a named integer (default 0) or string (default
\* blank, NUL-padded when shorter than its field) from values; padding is zeros.
PackEntry(entry, values, order) ==
    CASE StructKind(entry[2]) = "i" /\ entry[1] # None ->
             IntToBytes(ValueOf(values, entry[1], 0), 4, order)
      [] StructKind(entry[2]) = "s" ->
             LET text == ValueOf(values, entry[1], [k \in 1..StructSize(entry[2]) |-> 32])
             IN  text \o Zeros(StructSize(entry[2]) - Len(text))
      [] OTHER -> Zeros(StructSize(entry[2]))

\* struct.pack of entries lo..hi of a table.
RECURSIVE Pack(_, _, _, _, _)
Pack(table, lo, hi, values, order) ==
    IF lo > hi THEN << >>
    ELSE IF lo = hi THEN PackEntry(table[lo], values, order)
    ELSE LET mid == (lo + hi) \div 2
         IN  Pack(table, lo, mid, values, order) \o Pack(table, mid + 1, hi, values, order)

DirectorySize == TableSize(directory_format)

\* The bytes of the navigation block that follows the 4-byte tag.
NavBlock(p) ==
    IF p.tag \in navigation_keys THEN Pack(navigation_format(p.tag), 1, Len(navigation_format(p.tag)), p.nav, p.order)
    ELSE Zeros(8)

NavigationOffset(p) == IF p.tag = None THEN 0 ELSE DirectorySize
DataOffset(p) ==
    IF p.tag = None THEN DirectorySize ELSE DirectorySize + 4 + Len(NavBlock(p))

\* The sample the writer stores at row r, column c (from 1): never zero, and
\* with two different bytes when it is two bytes wide.
Sample(p, r, c) == IF p.bpp = 1 THEN 16 * r + c ELSE 256 * (16 * r + c) + c

\* A code that is not the directory's validity code.
BadCode(p) == p.vcode + 1

RowBytes(p, r) ==
    LET code == IF r = p.bad THEN BadCode(p) ELSE p.vcode
        prefix == IF p.prefix = 0 THEN << >>
                  ELSE IntToBytes(code, 4, p.order) \o [k \in 1..(p.prefix - 4) |-> 32]
        samples == [k \in 1..(p.nx * p.bpp) |->
                       IntToBytes(Sample(p, r, (k - 1) \div p.bpp + 1), p.bpp,
                                  p.order)[((k - 1) % p.bpp) + 1]]
    IN  prefix \o samples

RECURSIVE RowsBytes(_, _)
RowsBytes(p, r) == IF r > p.ny THEN << >> ELSE RowBytes(p, r) \o RowsBytes(p, r + 1)

DirectoryValues(p) ==
    [adde_position |-> p.adde, image_type |-> p.itype, date |-> p.date, time |-> p.time,
     upper_left_line_coordinate |-> p.ul_line, upper_left_image_element |-> p.ul_elem,
     image_lines |-> p.ny, data_per_line |-> p.nx, bytes_per_point |-> p.bpp,
     line_resolution |-> p.yres, element_resolution |-> p.xres,
     line_prefix_length |-> p.prefix, memo |-> Encode(<<" ", "a", "r", "e", "a", " ">>),
     data_offset |-> DataOffset(p), navigation_offset |-> NavigationOffset(p),
     validity_code |-> p.vcode, prefix_doc_length |-> p.doc,
     prefix_calibration_length |-> p.cal, prefix_band_length |-> p.band,
     source_type |-> Encode(<<"G", "V", "A", "R">>),
     calibration_type |-> Encode(<<"R", "A", "W", " ">>)]

WriteFile(p) ==
    LET whole == Pack(directory_format, 1, Len(directory_format), DirectoryValues(p), p.order)
                 \o (IF p.tag = None THEN << >>
                     ELSE [k \in 1..4 |-> Ord(p.tagchars[k])] \o NavBlock(p))
                 \o RowsBytes(p, 1)
    IN  IF p.keep > 0 THEN SubSeq(whole, 1, p.keep) ELSE whole

Text(chars) == Decode(Encode(chars))

WithTag(p, chars) ==
    [p EXCEPT !.tagchars = chars, !.tag = IF chars = << >> THEN None ELSE Text(chars)]

RectNav ==
    [image_row_number |-> 1, image_row_latitude |-> 450000,
     image_column_number |-> 1, image_column_longitude |-> 900000,
     dy |-> 5000, dx |-> 5000, sphere_radius |-> 6371100, sphere_eccentricity |-> 0,
     coordinate_type |-> 0, longitude_convention |-> 0]

MercNav ==
    [equator_line |-> 3, central_lon_element |-> 2, standard_lat |-> 200000,
     standard_lat_resolution |-> 1000, central_lon |-> 903000,
     sphere_radius |-> 6371100, sphere_eccentricity |-> 0, coordinate_type |-> 0,
     longitude_convention |-> 0]

TancNav ==
    [image_pole_line |-> 15000, image_pole_element |-> 20000, km_per_pixel |-> 25000,
     standard_lat |-> 600000, standard_lon |-> 1000000]

\* A 2 x 2 one-byte RECT image without line prefix, little-endian.
Plain ==
    [order |-> "little", adde |-> 0, itype |-> 4, date |-> 95123, time |-> 123456,
     ul_line |-> 1, ul_elem |-> 1, ny |-> 2, nx |-> 2, bpp |-> 1, yres |-> 1, xres |-> 1,
     prefix |-> 0, doc |-> 0, cal |-> 0, band |-> 0, vcode |-> 7, bad |-> 0,
     tagchars |-> <<"R", "E", "C", "T">>, tag |-> "RECT", nav |-> RectNav, keep |-> 0]

\* Line prefixes: none; the validity code alone; with documentation bytes; with a
\* calibration word.
Prefixes ==
    { [prefix |-> 0, doc |-> 0, cal |-> 0, band |-> 0],
      [prefix |-> 4, doc |-> 0, cal |-> 0, band |-> 0],
      [prefix |-> 8, doc |-> 4, cal |-> 0, band |-> 0] }

\* Validity codes, one with the most significant bit set.
ValidityCodes == {7, -2}

\* Images of every shape, sample width, byte order and prefix, with at most one row
\* whose validity code is wrong.
RowFiles ==
    { [Plain EXCEPT !.order = o, !.ny = ny, !.nx = nx, !.bpp = w, !.prefix = x.prefix,
                    !.doc = x.doc, !.cal = x.cal, !.band = x.band, !.vcode = v,
                    !.bad = b] :
        o \in Orders, ny \in 1..MaxLines, nx \in 1..MaxElems, w \in {1, 2},
        x \in Prefixes, v \in ValidityCodes, b \in 0..MaxLines }

\* Images whose line prefix declares calibration or band bytes after the validity
\* code: line_prefix_length = 4 + documentation + calibration + band lengths.
CalFiles ==
    { [Plain EXCEPT !.ny = ny, !.bpp = w, !.prefix = 4 + doc + cal + band, !.doc = doc,
                    !.cal = cal, !.band = band] :
        ny \in 1..MaxLines, w \in {1, 2}, doc \in {0, 4}, cal \in {0, 4},
        band \in {0, 4} }

TagChars ==
    { <<"D", "M", "S", "P">>, <<"G", "O", "E", "S">>, <<"G", "V", "A", "R">>,
      <<"L", "A", "L", "O">>, <<"L", "A", "M", "B">>, <<"M", "E", "R", "C">>,
      <<"M", "S", "A", "T">>, <<"M", "S", "G", " ">>, <<"P", "S", " ", " ">>,
      <<"R", "A", "D", "R">>, <<"R", "E", "C", "T">>, <<"T", "A", "N", "C">>,
      <<"T", "I", "R", "O">>,
      \* not in the catalog: unknown, lower case, without the trailing space
      <<"X", "X", "X", "X">>, <<"r", "e", "c", "t">>, <<"M", "S", "G", "X">>,
      \* no navigation block
      << >> }

NavOf(chars) ==
    CASE chars = <<"M", "E", "R", "C">> -> MercNav
      [] chars = <<"T", "A", "N", "C">> -> TancNav
      [] OTHER -> RectNav

NavFiles ==
    { WithTag([Plain EXCEPT !.order = o, !.nav = NavOf(c)], c) :
        o \in Orders, c \in TagChars }

\* RECT files over the resolutions (negative, zero, both scales), the longitude
\* convention, a zero and a non-zero reference longitude, and line resolutions
\* that are zero, one and two.
RectFiles ==
    { [Plain EXCEPT !.nav = [RectNav EXCEPT !.dx = dx, !.dy = dy,
                                            !.longitude_convention = conv,
                                            !.image_column_longitude = lon,
                                            !.image_row_number = 3],
                    !.yres = yres] :
        dx \in {-5000, 0, 5000, 10000, 10001}, dy \in {-5000, 0, 5000, 10000, 250000},
        conv \in {-1, 0}, lon \in {0, 900000}, yres \in {0, 1, 2} }

\* RECT files whose reference column is not the image's first element, at
\* element resolutions one and two.
RectShiftFiles ==
    { [Plain EXCEPT !.nav = [RectNav EXCEPT !.dx = dx, !.longitude_convention = conv,
                                            !.image_column_number = col],
                    !.xres = xres, !.ul_elem = elem] :
        dx \in {-5000, 5000, 10001}, conv \in {-1, 0}, col \in {2, 3},
        xres \in {1, 2}, elem \in {1, 4} }

MercFiles ==
    { WithTag([Plain EXCEPT !.nav = [MercNav EXCEPT !.standard_lat_resolution = res,
                                                    !.central_lon_element = elem,
                                                    !.standard_lat = lat,
                                                    !.longitude_convention = conv],
                            !.xres = xres], <<"M", "E", "R", "C">>) :
        res \in {-1000, 0, 1000}, elem \in {1, 2}, lat \in {200000, -203000},
        conv \in {-1, 0}, xres \in {1, 3} }

TancFiles ==
    { WithTag([Plain EXCEPT !.nav = [TancNav EXCEPT !.km_per_pixel = km,
                                                    !.image_pole_element = elem],
                            !.xres = xres], <<"T", "A", "N", "C">>) :
        km \in {0, 25000}, elem \in {10000, 20000, 25000}, xres \in {1, 2} }

\* Dates and times: valid ones, day 000, days 366 and 367, the year offset 100,
\* a negative and a seven-digit date; hour 24, minute 60, a negative time.
TimeFiles ==
    { [Plain EXCEPT !.date = d] :
        d \in {95001, 95365, 95366, 96366, 95000, 95367, 100060, 999365, -5, 1995001} }
    \cup { [Plain EXCEPT !.time = tm] : tm \in {0, 235959, 240000, 126000, -1} }
    \cup { [Plain EXCEPT !.date = d, !.time = tm] :
             d \in {1, 4060, 100366, 999001}, tm \in {0, 1, 235959} }

\* The 312-byte file of a 2 x 2 image with a 4-byte prefix, cut short at every
\* boundary of its layout and inside every part; and cut inside its second row
\* with the validity code of one row wrong.
CutFiles ==
    { [Plain EXCEPT !.prefix = 4, !.keep = k] :
        k \in {4, 7, 8, 200, 255, 256, 258, 260, 299, 300, 302, 304, 305, 306, 308, 311} }
    \cup { [Plain EXCEPT !.prefix = 4, !.bad = b, !.keep = k] :
             b \in {1, 2}, k \in {307, 310} }

\* The first two directory words, each 4 or not.
SentinelFiles ==
    { [Plain EXCEPT !.order = o, !.adde = a, !.itype = it] :
        o \in Orders, a \in {0, 4}, it \in {4, 5} }

\* The decodes: every file on either host; the georeference and timestamp
\* families, whose arithmetic does not involve the host, on one.
Runs ==
    ({ p \in RowFiles : p.bad <= p.ny /\ (p.prefix = 0 => p.bad = 0 /\ p.vcode = 7) }
        \X Hosts)
    \cup ((NavFiles \cup CutFiles \cup SentinelFiles) \X Hosts)
    \cup ((RectFiles \cup RectShiftFiles \cup MercFiles \cup TancFiles \cup TimeFiles
           \cup CalFiles) \X {"little"})

Init ==
    /\ \E run \in Runs : src = run[1] /\ host = run[2]
    /\ file = WriteFile(src)
    /\ pc = "detect"
    /\ offset = 0
    /\ start = None
    /\ swapped_bytes = None /\ prefmt = None /\ endian = None
    /\ directory_block = Unset /\ navigation_type = None /\ navigation_block = Unset
    /\ georef = Unset /\ timestamp = Unset
    /\ data = None /\ j = 0 /\ image = Unset
    /\ error = NoError /\ result = Unset
    /\ stages = << >>
    /\ arg = None /\ out = None

Next ==
    \/ DetectByteOrder
    \/ ReadDirectory
    \/ ReadNavigation
    \/ SetGeoreference
    \/ SetTimestamp
    \/ GetDataStart
    \/ GetDataRow
    \/ GetDataEnd

Spec == Init /\ [][Next]_vars

(***************************************************************************)
(* _set_extent on its own: the inputs are drawn from small sets and the    *)
(* function is applied once.                                               *)
(***************************************************************************)
MaxCount == 2

\* The variables of the decoder, unused here.
NoDecode ==
    /\ src = Plain /\ host = "little" /\ file = << >>
    /\ offset = 0 /\ start = None
    /\ swapped_bytes = None /\ prefmt = None /\ endian = None
    /\ directory_block = Unset /\ navigation_type = None /\ navigation_block = Unset
    /\ georef = Unset /\ timestamp = Unset
    /\ data = None /\ j = 0 /\ image = Unset
    /\ error = NoError /\ result = Unset
    /\ stages = << >>

UNCHANGED_Decode ==
    UNCHANGED <<src, host, file, offset, start, swapped_bytes, prefmt, endian,
                directory_block, navigation_type, navigation_block, georef, timestamp,
                data, j, image, error, result, stages>>

ExtentOrigins == {Int2Rat(-90), Int2Rat(0), Rat(1, 2)}
ExtentSizes == {Int2Rat(-1), Rat(-1, 2), Int2Rat(0), Rat(1, 2), Int2Rat(2)}

InitExtent ==
    /\ NoDecode
    /\ pc = "extent"
    /\ \E west \in ExtentOrigins, north \in ExtentOrigins, dx \in ExtentSizes,
          dy \in ExtentSizes, nx \in 0..MaxCount, ny \in 0..MaxCount :
          arg = [origin |-> <<west, north>>, dx |-> dx, dy |-> dy, nx |-> nx, ny |-> ny]
    /\ out = None

CallSetExtent ==
    /\ pc = "extent"
    /\ out' = _set_extent(arg.origin, arg.dx, arg.dy, arg.nx, arg.ny)
    /\ pc' = "extent_done"
    /\ UNCHANGED arg
    /\ UNCHANGED_Decode

NextExtent == CallSetExtent

SpecExtent == InitExtent /\ [][NextExtent]_vars

(***************************************************************************)
(* dms_to_decimal on its own.                                              *)
(***************************************************************************)
DmsDegrees == {0, 1, 9, 45, 99, 100, 180, 359, 999}
DmsMinutes == {0, 1, 9, 15, 59, 60, 99}
DmsSeconds == {0, 1, 9, 30, 59, 60, 99}

InitDms ==
    /\ NoDecode
    /\ pc = "dms"
    /\ \E ddd \in DmsDegrees, mm \in DmsMinutes, ss \in DmsSeconds :
          arg = [ddd |-> ddd, mm |-> mm, ss |-> ss]
    /\ out = None

CallDmsToDecimal ==
    /\ pc = "dms"
    /\ out' = dms_to_decimal(arg.ddd * 10000 + arg.mm * 100 + arg.ss)
    /\ pc' = "dms_done"
    /\ UNCHANGED arg
    /\ UNCHANGED_Decode

NextDms == CallDmsToDecimal

SpecDms == InitDms /\ [][NextDms]_vars

(***************************************************************************)
(* dms_to_decimal on the negated packed value.                             *)
(***************************************************************************)
InitDmsNeg ==
    /\ NoDecode
    /\ pc = "dms_neg"
    /\ \E ddd \in DmsDegrees, mm \in DmsMinutes, ss \in DmsSeconds :
          arg = [ddd |-> ddd, mm |-> mm, ss |-> ss]
    /\ out = None

CallDmsToDecimalNeg ==
    /\ pc = "dms_neg"
    /\ out' = dms_to_decimal(-(arg.ddd * 10000 + arg.mm * 100 + arg.ss))
    /\ pc' = "dms_neg_done"
    /\ UNCHANGED arg
    /\ UNCHANGED_Decode

NextDmsNeg == CallDmsToDecimalNeg

SpecDmsNeg == InitDmsNeg /\ [][NextDmsNeg]_vars

(***************************************************************************)
(* range_longitude on its own.                                             *)
(***************************************************************************)
MaxLon == 800

InitLon ==
    /\ NoDecode
    /\ pc = "lon"
    /\ arg \in (-MaxLon)..MaxLon
    /\ out = None

CallRangeLongitude ==
    /\ pc = "lon"
    /\ out' = range_longitude(arg)
    /\ pc' = "lon_done"
    /\ UNCHANGED arg
    /\ UNCHANGED_Decode

NextLon == CallRangeLongitude

SpecLon == InitLon /\ [][NextLon]_vars

(***************************************************************************)
(* repeat_format on its own.                                               *)
(***************************************************************************)
MaxNames == 2
MaxRepeat == 3

RepeatNames == {"roll_sin_mag", "roll_phase_sin", "longitude_delta"}
RepeatFormats == {"i", "4s"}
RepeatCalls == {None, "dms_to_decimal"}

InitRepeat ==
    /\ NoDecode
    /\ pc = "repeat"
    /\ \E k \in 0..MaxNames, repeat \in 0..MaxRepeat :
          \E names \in [1..k -> RepeatNames], binary_format \in RepeatFormats,
             call \in RepeatCalls :
                arg = [names |-> names, binary_format |-> binary_format,
                       repeat |-> repeat, call |-> call]
    /\ out = None

CallRepeatFormat ==
    /\ pc = "repeat"
    /\ out' = repeat_format(arg.names, arg.binary_format, arg.repeat, arg.call)
    /\ pc' = "repeat_done"
    /\ UNCHANGED arg
    /\ UNCHANGED_Decode

NextRepeat == CallRepeatFormat

SpecRepeat == InitRepeat /\ [][NextRepeat]_vars

(***************************************************************************)
(* The claims.                                                             *)
(***************************************************************************)
StagesRun == {stages[k] : k \in 1..Len(stages)}

\* The samples the writer stored for row r.
StoredRow(p, r) == [c \in 1..p.nx |-> Sample(p, r, c)]

\* The same content written in the other byte order.
Flip(p) == [p EXCEPT !.order = IF p.order = "little" THEN "big" ELSE "little"]

\* C1: in a file with a line prefix where row k alone carries a validity code that
\* differs from the directory's, the decoded image has row k all zero and every
\* other row holds exactly the samples stored for it.  Stated for files in the
\* host's byte order with a non-negative validity code, where the samples and
\* the codes of the valid rows are read as written.
C1_RowSkip ==
    (pc = "done" /\ src.prefix > 0 /\ src.bad >= 1 /\ src.vcode >= 0
     /\ swapped_bytes = FALSE)
        => /\ image[1][src.bad] = Zeros(src.nx)
           /\ \A r \in 1..src.ny : r # src.bad => image[1][r] = StoredRow(src, r)

\* C2: when navigation_offset is not 0 and the four characters at that offset are
\* no key of the navigation catalog, the decode has failed with the
\* NotImplementedError that names those characters, no navigation record was
\* produced and no stage after the navigation stage has run.
C2_UnknownTag ==
    ("navigation" \in StagesRun /\ Field(directory_block, "navigation_offset") # 0)
        => LET at == start + Field(directory_block, "navigation_offset")
               tag == Decode(SubSeq(file, at + 1, at + 4))
           IN  (at >= 0 /\ at + 4 <= Len(file) /\ tag \notin navigation_keys)
                  => /\ pc = "failed"
                     /\ error = Exc("NotImplementedError",
                                    "No format for navigation type", tag)
                     /\ navigation_block = Unset /\ georef = Unset
                     /\ timestamp = Unset /\ image = Unset /\ result = Unset
                     /\ stages = <<"detect", "directory", "navigation">>

\* C2's case: the decode of the file tagged XXXX has failed naming XXXX.
C2_Witness ==
    /\ pc = "failed" /\ navigation_type = "XXXX"
    /\ error.type = "NotImplementedError" /\ error.names = "XXXX"

\* C3: for a tag of the catalog other than RECT, MERC and TANC the georeference
\* step fails with the NotImplementedError that names the tag and produces no
\* georeference; a georeference exists only for RECT, MERC and TANC.
C3_UnsupportedNavigation ==
    /\ ("georeference" \in StagesRun
        /\ navigation_type \in navigation_keys \ {"RECT", "MERC", "TANC"})
          => /\ pc = "failed"
             /\ error = Exc("NotImplementedError", "navigation not currently supported",
                            navigation_type)
             /\ georef = Unset /\ result = Unset
             /\ stages = <<"detect", "directory", "navigation", "georeference">>
    /\ georef # Unset => navigation_type \in {"RECT", "MERC", "TANC"}

\* C3's case: the georeference step has failed on a GVAR file.
C3_Witness ==
    /\ pc = "failed" /\ navigation_type = "GVAR" /\ navigation_block # Unset
    /\ error.names = "GVAR" /\ stages[Len(stages)] = "georeference"

\* C4: an exception of any stage ends the construction without a result and
\* nothing runs after it; a result exists only when every stage has run to its
\* end on bytes that were all there, with a supported navigation, a parsable
\* day of the year, and an image of full shape; a file cut short whose rows are
\* all valid never yields a result, and in a complete file whose rows are all
\* valid, with a prefix without calibration and band parts, every row of the
\* result has been read.
C4_AllOrNothing ==
    /\ error # NoError => pc = "failed"
    /\ pc = "failed" => /\ error # NoError /\ result = Unset /\ image = Unset
                        /\ ~ENABLED Next
    /\ (src.keep > 0 /\ src.bad = 0) => result = Unset
    /\ result # Unset =>
          LET ny == Field(directory_block, "image_lines")
              nx == Field(directory_block, "data_per_line")
              date == Field(directory_block, "date")
          IN  /\ pc = "done" /\ error = NoError
              /\ stages = <<"detect", "directory", "navigation", "georeference",
                            "timestamp", "data">> \o [k \in 1..ny |-> "row"]
              /\ offset <= Len(file)
              /\ navigation_type \in {"RECT", "MERC", "TANC"}
              /\ georef # Unset /\ timestamp # Unset /\ image # Unset
              /\ date \in 0..999999 => (date % 1000) \in 1..366
              /\ result[1].image = image[1] /\ result[1].timestamp = timestamp[1]
              /\ result[1].extent = georef[1].extent
              /\ Len(image[1]) = ny /\ \A r \in 1..ny : Len(image[1][r]) = nx
              /\ (src.bad = 0 /\ src.vcode >= 0 /\ src.cal = 0 /\ src.band = 0)
                    => \A r \in 1..ny : image[1][r] # Zeros(nx)

\* C4's case: the source ended inside the second row, after the first was read.
C4_Witness ==
    /\ pc = "failed" /\ error.type = "TruncatedInput" /\ j = 1
    /\ data[1] # Zeros(src.nx) /\ result = Unset

\* C5: in a file detected as swapped whose samples are wider than one byte, every
\* decoded sample equals the value the writer stored.
C5_SamplesInFileOrder ==
    (pc = "done" /\ swapped_bytes = TRUE /\ src.bpp > 1 /\ src.prefix = 0
     /\ src.itype = 4)
        => \A r \in 1..src.ny : image[1][r] = StoredRow(src, r)

\* What the construction has set once its header stages are over.
HeaderOver == Len(stages) = 3 \/ (pc = "failed" /\ Len(stages) < 3)
Decoded ==
    [err |-> error, directory_block |-> directory_block,
     navigation_type |-> navigation_type, navigation_block |-> navigation_block]

\* A second detection on the bytes of the file decides as the first did.
SameDecision ==
    (Len(stages) >= 1 /\ Len(file) >= 8)
        => _swap_bytes(SubSeq(file, 5, 8))
              = [swapped_bytes |-> swapped_bytes, prefmt |-> prefmt, endian |-> endian]

\* C6 as stated: whatever the directory and navigation content, the encoding of
\* the same content in the other byte order decodes to the same directory and
\* navigation values (or the same failure), and a second detection on the same
\* bytes gives the same decision.
C6_SymmetryAnyContent ==
    /\ HeaderOver => Header(WriteFile(Flip(src))) = Decoded
    /\ SameDecision

\* C6 amended: the same, for every content whose image_type word (bytes 4-7 of
\* the directory, the one the detection reads) is 4.
C6_SymmetryImageTypeFour ==
    /\ (HeaderOver /\ src.itype = 4) => Header(WriteFile(Flip(src))) = Decoded
    /\ SameDecision

\* C6's case: the header of a swapped GVAR file has been decoded.
C6_Witness ==
    /\ Len(stages) = 3 /\ pc = "georeference" /\ swapped_bytes = TRUE
    /\ src.itype = 4 /\ navigation_type = "GVAR"
    /\ Header(WriteFile(Flip(src))) = Decoded

\* C7: without line prefix the decoded image has image_lines rows of
\* data_per_line samples, and sample (j, i) is made of the bytes_per_point bytes
\* of the file at data_offset + (j * data_per_line + i) * bytes_per_point from
\* the record start; where the file is in the host's order or the samples are
\* one byte wide, it is the value the writer stored.
C7_ImageFidelity ==
    (pc = "done" /\ Field(directory_block, "line_prefix_length") = 0) =>
        LET ny == Field(directory_block, "image_lines")
            nx == Field(directory_block, "data_per_line")
            width == Field(directory_block, "bytes_per_point")
            base == start + Field(directory_block, "data_offset")
        IN  /\ Len(image[1]) = ny
            /\ \A r \in 1..ny : Len(image[1][r]) = nx
            /\ \A r \in 1..ny, c \in 1..nx :
                  LET k == (r - 1) * nx + (c - 1)
                  IN  /\ IntToBytes(image[1][r][c], width, host)
                            = SubSeq(file, base + k * width + 1, base + (k + 1) * width)
                      /\ (swapped_bytes = FALSE \/ width = 1)
                            => image[1][r][c] = Sample(src, r, c)

\* C7's case: a swapped image of two-byte samples, at least 2 x 2, is decoded.
C7_Witness ==
    /\ pc = "done" /\ src.prefix = 0 /\ src.bpp = 2 /\ swapped_bytes = TRUE
    /\ src.ny >= 2 /\ src.nx >= 2

\* The four corner values of the produced grid: longitudes and latitudes for
\* RECT, the x and y vectors for MERC and TANC.
GridExtent ==
    LET g == georef[1]
        nx == Field(directory_block, "data_per_line")
        ny == Field(directory_block, "image_lines")
        xs == IF navigation_type = "RECT" THEN {g.lons[1][1], g.lons[1][nx]}
              ELSE {Int2Rat(g.x[1]), Int2Rat(g.x[nx])}
        ys == IF navigation_type = "RECT" THEN {g.lats[1][1], g.lats[ny][1]}
              ELSE {Int2Rat(g.y[1]), Int2Rat(g.y[ny])}
    IN  <<RMin(xs), RMax(xs), RMin(ys), RMax(ys)>>

\* C8 as stated: the extent of a decoded RECT, MERC or TANC file is the min/max
\* of the four corner values of the grid it produced.
C8_ExtentIsGridCorners ==
    georef # Unset => georef[1].extent = GridExtent

\* C8 amended: the extent spans the outer edges of the image: west and east are
\* X0 and X0 + nx*dx, south and north are Y0 - ny*dy and Y0 (in this order when
\* dx and dy are not negative), (X0, Y0) being the origin handed to _set_extent.
\* For RECT, X0 and Y0 are the first column's longitude and the first row's
\* latitude, and the other two edges lie one pixel beyond the last column and
\* the last row; for MERC and TANC the x and y vectors start at X0 and Y0
\* truncated.
C8_ExtentIsImageEdges ==
    georef # Unset =>
        LET g == georef[1]
            nx == Field(directory_block, "data_per_line")
            ny == Field(directory_block, "image_lines")
            x0 == g.origin[1]
            y0 == g.origin[2]
            x1 == RAdd(x0, RMul(Int2Rat(nx), g.dx))
            y1 == RSub(y0, RMul(Int2Rat(ny), g.dy))
        IN  /\ {g.extent[1], g.extent[2]} = {x0, x1}
            /\ {g.extent[3], g.extent[4]} = {y1, y0}
            /\ (g.dx[1] >= 0 /\ g.dy[1] >= 0) => g.extent = <<x0, x1, y1, y0>>
            /\ navigation_type = "RECT" =>
                  /\ x0 = g.lons[1][1] /\ x1 = RAdd(g.lons[1][nx], g.dx)
                  /\ y0 = g.lats[1][1] /\ y1 = RSub(g.lats[ny][1], g.dy)
            /\ navigation_type # "RECT" => g.x[1] = Trunc(x0) /\ g.y[1] = Trunc(y0)

\* C8's case: a RECT file whose longitudes decrease eastwards, on the general
\* branch of _set_extent.
C8_Witness ==
    /\ georef # Unset /\ navigation_type = "RECT"
    /\ georef[1].dx[1] < 0 /\ georef[1].origin[1][1] # 0
    /\ georef[1].extent # GridExtent

\* C9: whenever _set_extent takes its special-case branch, what it returns is
\* what the general branch returns for the same inputs.
C9_BranchesAgree ==
    LET affine == AffineValues(arg.dx, RNeg(arg.dy), arg.origin[1], arg.origin[2])
    IN  (pc = "extent_done" /\ TakesCheapBranch(affine))
            => out = GeneralExtent(affine, arg.nx, arg.ny)

\* C10: for 0 <= DDD <= 999, 0 <= MM <= 99 and 0 <= SS <= 99, dms_to_decimal of
\* DDD*10000 + MM*100 + SS is DDD + MM/60 + SS/3600.
C10_DmsToDecimal ==
    pc = "dms_done"
        => out = RAdd(Int2Rat(arg.ddd),
                      Rat(60 * arg.mm + arg.ss, 3600))

\* C10's case: 0451530 has been converted to 45 + 15/60 + 30/3600 = 5431/120.
C10_Witness ==
    /\ pc = "dms_done" /\ arg = [ddd |-> 45, mm |-> 15, ss |-> 30]
    /\ out = <<5431, 120>>

\* C11: for every integer longitude, range_longitude gives the one value r with
\* -180 <= r < 180 that differs from it by a multiple of 360; 270 gives -90 and
\* -200 gives 160; applied to its own result it returns that result.
C11_RangeLongitude ==
    pc = "lon_done"
        => /\ out \in -180..179
           /\ \E k \in -3..3 : arg = out + 360 * k
           /\ \A r \in -180..179 : (\E k \in -3..3 : arg = r + 360 * k) => r = out
           /\ range_longitude(out) = out
           /\ arg = 270 => out = -90
           /\ arg = -200 => out = 160

\* C11's case: -200 has been re-ranged to 160.
C11_Witness == pc = "lon_done" /\ arg = -200 /\ out = 160

\* C12: for a header date Y*1000 + DDD with 0 <= Y <= 999 and DDD a day of the
\* year 1900 + Y, and a header time HH*10000 + MM*100 + SS that is a time of day,
\* the timestamp stage produces day DDD of the year 1900 + Y at HH:MM:SS.
C12_TimestampComposition ==
    Len(stages) >= 5 =>
        LET date == Field(directory_block, "date")
            time == Field(directory_block, "time")
            year == 1900 + (date \div 1000)
            ddd == date % 1000
            hh == time \div 10000
            mm == (time \div 100) % 100
            ss == time % 100
            days == IF year % 4 = 0 /\ (year % 100 # 0 \/ year % 400 = 0) THEN 366
                    ELSE 365
        IN  (date \in 0..999999 /\ ddd \in 1..days
             /\ time >= 0 /\ hh <= 23 /\ mm <= 59 /\ ss <= 59)
                => timestamp = << [year |-> year, yday |-> ddd, hour |-> hh,
                                  minute |-> mm, second |-> ss] >>

\* C12's case: day 366 of the leap year 2000, one second before midnight.
C12_Witness ==
    /\ timestamp # Unset /\ src.date = 100366 /\ src.time = 235959
    /\ timestamp[1].year = 2000 /\ timestamp[1].yday = 366
    /\ timestamp[1].hour = 23 /\ timestamp[1].second = 59

\* C13: whenever the day-of-year part of the header date is 000 or exceeds the
\* number of days of the year 1900 + Y (366 in a year that is not a leap year
\* included), the decode fails in the timestamp stage with the parse error, no
\* timestamp is produced and the image is not decoded.
C13_InvalidDayIsError ==
    Len(stages) >= 5 =>
        LET date == Field(directory_block, "date")
            year == 1900 + (date \div 1000)
            ddd == date % 1000
            days == IF year % 4 = 0 /\ (year % 100 # 0 \/ year % 400 = 0) THEN 366
                    ELSE 365
        IN  (date \in 0..999999 /\ ddd \notin 1..days)
                => /\ pc = "failed" /\ error.type = "ValueError"
                   /\ timestamp = Unset /\ image = Unset
                   /\ stages[Len(stages)] = "timestamp"

\* The names a table declares, padding left out, in declaration order.
DeclaredNames(table) ==
    LET Named(entry) == entry[1] # None
    IN  [k \in 1..Len(SelectSeq(table, Named)) |-> SelectSeq(table, Named)[k][1]]

\* The sum of the widths each navigation table declares, in bytes.
DeclaredSize(tag) ==
    CASE tag = "DMSP" -> 508
      [] tag = "GOES" -> 204
      [] tag = "GVAR" -> 2556
      [] tag = "LALO" -> 508
      [] tag = "LAMB" -> 508
      [] tag = "MERC" -> 508
      [] tag = "MSAT" -> 1020
      [] tag = "MSG " -> 508
      [] tag = "PS  " -> 508
      [] tag = "RADR" -> 28
      [] tag = "RECT" -> 40
      [] tag = "TANC" -> 508
      [] tag = "TIRO" -> 508

StageOrder ==
    <<"detect", "directory", "navigation", "georeference", "timestamp", "data">>

\* C15: the stages that have started are always a prefix of byte-order
\* detection, directory, navigation, georeference, timestamp, image decode (the
\* rows of the image last); whenever a stage has started, every stage before it
\* has produced its output and raised nothing; after an exception nothing runs;
\* and the cursor is moved to the pixel data, and rows are read, only when both
\* the georeference and the timestamp exist.
C15_StageOrdering ==
    /\ \A k \in 1..Len(stages) :
          stages[k] = IF k <= Len(StageOrder) THEN StageOrder[k] ELSE "row"
    /\ Len(stages) >= 2 => prefmt # None /\ endian # None
    /\ Len(stages) >= 3 => directory_block # Unset
    /\ Len(stages) >= 4
          => (Field(directory_block, "navigation_offset") # 0
                 => navigation_type # None /\ navigation_block # Unset)
    /\ Len(stages) >= 5 => georef # Unset
    /\ Len(stages) >= 6 => georef # Unset /\ timestamp # Unset
    /\ ("data" \in StagesRun \/ "row" \in StagesRun \/ image # Unset)
          => georef # Unset /\ timestamp # Unset /\ Len(stages) >= 6
    /\ Len(stages) < 6 => data = None /\ j = 0 /\ image = Unset /\ result = Unset
    /\ error # NoError
          => /\ pc = "failed" /\ ~ENABLED Next
             /\ Len(stages) = 4 => georef = Unset /\ timestamp = Unset
             /\ Len(stages) = 5 => timestamp = Unset /\ data = None
    /\ (pc # "failed" /\ Len(stages) <= 6) => error = NoError

\* C15's case: the georeference stage raised (a navigation the georeference does
\* not support), and neither the timestamp stage nor the image decode ran.
C15_Witness ==
    /\ pc = "failed" /\ stages = SubSeq(StageOrder, 1, 4)
    /\ navigation_type = "GVAR" /\ timestamp = Unset /\ data = None

\* What follows the detection whichever word it reads: the prefix and byte order
\* that go with the decision, the cursor back at the record start, and the
\* directory then decoded from there in the order decided.
AfterDetection ==
    /\ prefmt = (IF ~swapped_bytes THEN "" ELSE IF host = "little" THEN ">" ELSE "<")
    /\ endian = (IF swapped_bytes = (host = "little") THEN "big" ELSE "little")
    /\ start = 0
    /\ (Len(stages) = 1 /\ pc = "directory") => offset = start
    /\ (Len(stages) = 2 /\ pc = "navigation")
          => /\ offset = start + 256
             /\ directory_block[1]
                   = <<"adde_position", FixedInt(SubSeq(file, 1, 4), endian, TRUE)>>
             /\ directory_block[2]
                   = <<"image_type", FixedInt(SubSeq(file, 5, 8), endian, TRUE)>>

\* C16 as stated: the file is taken as not swapped exactly when bytes 0-3 are the
\* host's encoding of the integer 4, and the directory is then decoded from
\* offset 0.
C16_SentinelIsFirstWord ==
    (Len(stages) >= 1 /\ Len(file) >= 8)
        => /\ swapped_bytes = (SubSeq(file, 1, 4) # IntToBytes(4, 4, host))
           /\ AfterDetection

\* C16 amended: the file is taken as not swapped exactly when bytes 4-7, the
\* image_type word, are the host's encoding of the integer 4, and as swapped
\* otherwise, whatever bytes 0-3 and the bytes from 8 on are; the directory is
\* then decoded from offset 0.
C16_SentinelIsSecondWord ==
    (Len(stages) >= 1 /\ Len(file) >= 8)
        => /\ swapped_bytes = (SubSeq(file, 5, 8) # IntToBytes(4, 4, host))
           /\ AfterDetection

\* C16's case: bytes 0-3 are the host's 4 and bytes 4-7 are not; the file has
\* been taken as swapped and the directory decoded from offset 0.
C16_Witness ==
    /\ Len(stages) = 2 /\ pc = "navigation"
    /\ SubSeq(file, 1, 4) = IntToBytes(4, 4, host)
    /\ SubSeq(file, 5, 8) # IntToBytes(4, 4, host)
    /\ swapped_bytes = TRUE /\ offset = 256

\* The discriminants the specification lists.
CatalogTags ==
    {"DMSP", "GOES", "GVAR", "LALO", "LAMB", "MERC", "MSAT", "MSG ", "PS  ", "RADR",
     "RECT", "TANC", "TIRO"}

\* The dispatch on the tag read from the file: a tag has a table exactly when it
\* is, character for character, one of the listed discriminants; the block is
\* then decoded with that tag's table alone (unless the file ends inside it), and
\* a later lookup of the same tag gives the same table; any other tag, one that differs only in case or in a
\* trailing space included, is refused with the error that names it.
CatalogLookup ==
    (Len(stages) >= 3 /\ navigation_type # None) =>
        LET f == _get_navigation_format(navigation_type)
        IN  /\ Failed(f) <=> navigation_type \notin CatalogTags
            /\ Failed(f)
                  => /\ pc = "failed" /\ Len(stages) = 3 /\ navigation_block = Unset
                     /\ error = f.err /\ error.type = "NotImplementedError"
                     /\ error.names = navigation_type
            /\ ~Failed(f)
                  => /\ f.val = navigation_format(navigation_type)
                     /\ TableSize(f.val) = DeclaredSize(navigation_type)
                     /\ navigation_block = Unset
                           => /\ pc = "failed" /\ error.type = "FormatError"
                              /\ Len(file) < offset + DeclaredSize(navigation_type)
                     /\ (navigation_block # Unset /\ Len(stages) = 3)
                           => /\ FieldNames(navigation_block[1]) = DeclaredNames(f.val)
                              /\ \A other \in CatalogTags \ {navigation_type} :
                                    TableSize(navigation_format(other)) # TableSize(f.val)
                                        => FieldNames(navigation_block[1])
                                              # DeclaredNames(navigation_format(other))

\* C17 as stated: the catalog has exactly 14 discriminants, each with one table,
\* looked up by exact match of the four characters.
C17_CatalogOfFourteen ==
    /\ Cardinality(navigation_keys) = 14
    /\ CatalogLookup

\* C17 amended: the catalog has exactly 13 discriminants (DMSP, GOES, GVAR, LALO,
\* LAMB, MERC, MSAT, 'MSG ', 'PS  ', RADR, RECT, TANC, TIRO), each with one table,
\* looked up by exact match of the four characters, the same on every call.
C17_CatalogOfThirteen ==
    /\ Cardinality(navigation_keys) = 13
    /\ navigation_keys = CatalogTags
    /\ CatalogLookup

\* C17's case: the tag 'MSG ' with its trailing space has been looked up and
\* its block, which is all padding, decoded.
C17_Witness ==
    /\ Len(stages) = 3 /\ pc = "georeference" /\ navigation_type = "MSG "
    /\ navigation_block = << << >> >>
    /\ offset = 256 + 4 + 508

\* C18: for k names and a repeat count N >= 1 the result is one flat list of N*k
\* entries; entry (n-1)*k + i is the i-th name with the suffix n, the binary
\* format and, when one is given, the transform: all names with suffix 1 in
\* their declared order, then all with suffix 2, up to suffix N.
C18_RepeatExpansion ==
    (pc = "repeat_done" /\ arg.repeat >= 1) =>
        LET k == Len(arg.names)
            N == arg.repeat
        IN  /\ Len(out) = N * k
            /\ \A n \in 1..N, i \in 1..k :
                  out[(n - 1) * k + i]
                     = IF arg.call = None
                       THEN <<arg.names[i] \o ToString(n), arg.binary_format>>
                       ELSE <<arg.names[i] \o ToString(n), arg.binary_format, arg.call>>
            /\ (arg.names = <<"roll_sin_mag", "roll_phase_sin">> /\ N = 2
                 /\ arg.binary_format = "i" /\ arg.call = None)
                  => out = << <<"roll_sin_mag1", "i">>, <<"roll_phase_sin1", "i">>,
                              <<"roll_sin_mag2", "i">>, <<"roll_phase_sin2", "i">> >>

\* C18's case: two names repeated three times with a transform.
C18_Witness ==
    /\ pc = "repeat_done" /\ arg.repeat = 3 /\ arg.call = "dms_to_decimal"
    /\ arg.names = <<"roll_sin_mag", "roll_phase_sin">>
    /\ Len(out) = 6
    /\ out[3] = <<"roll_sin_mag2", arg.binary_format, "dms_to_decimal">>
    /\ out[6] = <<"roll_phase_sin3", arg.binary_format, "dms_to_decimal">>

\* C19: for RECT navigation dx and dy are each scaled from their own raw word:
\* a raw value above 10000 is divided by 1e6, every other raw value, 10000
\* itself, zero and negatives included, by 1e4; the scaled values are the grid's
\* steps.
C19_RectDualScale ==
    (georef # Unset /\ navigation_type = "RECT") =>
        LET raw_dx == Field(navigation_block[1], "dx")
            raw_dy == Field(navigation_block[1], "dy")
            Scaled(raw) == IF raw > 10000 THEN Rat(raw, 1000000) ELSE Rat(raw, 10000)
            g == georef[1]
        IN  /\ g.dx = Scaled(raw_dx)
            /\ g.dy = Scaled(raw_dy)
            /\ raw_dx = 10000 => g.dx = Int2Rat(1)
            /\ raw_dx = 10001 => g.dx = Rat(10001, 1000000)
            /\ raw_dy = 10000 => g.dy = Int2Rat(1)
            /\ raw_dy = 250000 => g.dy = Rat(1, 4)
            /\ raw_dx = -5000 => g.dx = Rat(-1, 2)
            /\ Field(directory_block, "data_per_line") >= 2
                  => RSub(g.lons[1][2], g.lons[1][1]) = g.dx
            /\ Field(directory_block, "image_lines") >= 2
                  => RSub(g.lats[1][1], g.lats[2][1]) = g.dy

\* C19's case: dx is exactly 10000 and dy far above it.
C19_Witness ==
    /\ georef # Unset /\ navigation_type = "RECT"
    /\ src.nav.dx = 10000 /\ src.nav.dy = 250000
    /\ georef[1].dx = Int2Rat(1) /\ georef[1].dy = Rat(1, 4)

\* C20: for RECT navigation the longitude and latitude grids have image_lines
\* rows of data_per_line columns, with lon[i][j] = origin_lon + j*dx and
\* lat[i][j] = origin_lat - i*dy, where origin_lat = image_row_latitude/1e4 +
\* ((image_row_number - upper_left_line_coordinate)/line_resolution)*dy,
\* origin_lon = base_lon - ((image_column_number - upper_left_image_element)
\* /element_resolution)*dx, and base_lon is image_column_longitude/1e4, negated
\* exactly when longitude_convention >= 0.
C20_RectGrid ==
    (georef # Unset /\ navigation_type = "RECT") =>
        LET dir == directory_block
            nav == navigation_block[1]
            g == georef[1]
            ny == Field(dir, "image_lines")
            nx == Field(dir, "data_per_line")
            lon == Rat(Field(nav, "image_column_longitude"), 10000)
            base_lon == IF Field(nav, "longitude_convention") >= 0 THEN RNeg(lon)
                        ELSE lon
            rows == Rat(Field(nav, "image_row_number")
                           - Field(dir, "upper_left_line_coordinate"),
                        Field(dir, "line_resolution"))
            cols == Rat(Field(nav, "image_column_number")
                           - Field(dir, "upper_left_image_element"),
                        Field(dir, "element_resolution"))
            origin_lat == RAdd(Rat(Field(nav, "image_row_latitude"), 10000),
                               RMul(rows, g.dy))
            origin_lon == RSub(base_lon, RMul(cols, g.dx))
        IN  /\ Len(g.lons) = ny /\ Len(g.lats) = ny
            /\ \A i \in 1..ny : Len(g.lons[i]) = nx /\ Len(g.lats[i]) = nx
            /\ \A i \in 0..(ny - 1), k \in 0..(nx - 1) :
                  /\ g.lons[i + 1][k + 1] = RAdd(origin_lon, RMul(Int2Rat(k), g.dx))
                  /\ g.lats[i + 1][k + 1] = RSub(origin_lat, RMul(Int2Rat(i), g.dy))

\* C20's case: reference column 3 of an image whose first element is 1 at
\* element resolution 2, longitude 90 under convention 0, dx 0.5: the origin is
\* at -90 - 1 * 0.5 and the second column half a degree east of it.
C20_Witness ==
    /\ georef # Unset /\ navigation_type = "RECT"
    /\ src.nav.image_column_number = 3 /\ src.ul_elem = 1 /\ src.xres = 2
    /\ src.nav.dx = 5000 /\ src.nav.longitude_convention = 0
    /\ georef[1].lons[1][1] = Rat(-181, 2)
    /\ georef[1].lons[2][2] = Int2Rat(-90)
    /\ georef[1].lats[2][1] = Rat(89, 2)

\* C21: for RECT navigation the x vector has one entry per pixel column with
\* x[j] = origin_lon + j*dx, and the y vector one entry per pixel row with
\* y[i] = origin_lat - i*dy: the longitudes of the mesh's first row and the
\* latitudes of its first column, not pixel indices.
C21_RectAxesAreCoordinates ==
    (georef # Unset /\ navigation_type = "RECT") =>
        LET g == georef[1]
            ny == Field(directory_block, "image_lines")
            nx == Field(directory_block, "data_per_line")
        IN  /\ Len(g.x) = nx /\ Len(g.y) = ny
            /\ \A k \in 0..(nx - 1) :
                  /\ Int2Rat(g.x[k + 1]) = RAdd(g.origin[1], RMul(Int2Rat(k), g.dx))
                  /\ ny >= 1 => Int2Rat(g.x[k + 1]) = g.lons[1][k + 1]
            /\ \A i \in 0..(ny - 1) :
                  /\ Int2Rat(g.y[i + 1]) = RSub(g.origin[2], RMul(Int2Rat(i), g.dy))
                  /\ nx >= 1 => Int2Rat(g.y[i + 1]) = g.lats[i + 1][1]

\* C22: in a complete file with a line prefix whose directory has
\* line_prefix_length = 4 + prefix_doc_length + prefix_calibration_length +
\* prefix_band_length and whose rows all carry the directory's validity code,
\* the cursor is at data_offset + j*(line_prefix_length + data_per_line *
\* bytes_per_point) from the record start when row j is about to be read, and
\* no read fails.
C22_RowStride ==
    LET dir == directory_block
    IN  (/\ "data" \in StagesRun
         /\ src.keep = 0 /\ src.bad = 0
         /\ Field(dir, "line_prefix_length") > 0
         /\ Field(dir, "line_prefix_length")
               = 4 + Field(dir, "prefix_doc_length")
                   + Field(dir, "prefix_calibration_length")
                   + Field(dir, "prefix_band_length"))
            => /\ pc \in {"rows", "done"}
               /\ offset = start + Field(dir, "data_offset")
                              + j * (Field(dir, "line_prefix_length")
                                     + Field(dir, "data_per_line")
                                         * Field(dir, "bytes_per_point"))

\* C23: when the directory's navigation_offset is 0 the navigation stage reads
\* nothing (the cursor stays at the end of the directory), records the
\* navigation type as absent and sets no navigation block; the georeference
\* stage then fails with the NotImplementedError for unsupported navigation,
\* and neither a timestamp nor an image nor a result is ever produced.
C23_NoNavigationNoDecode ==
    ("navigation" \in StagesRun /\ Field(directory_block, "navigation_offset") = 0)
        => /\ navigation_type = None /\ navigation_block = Unset
           /\ offset = start + 256
           /\ Len(stages) = 3 => pc = "georeference" /\ error = NoError
           /\ Len(stages) >= 4
                 => /\ stages = <<"detect", "directory", "navigation", "georeference">>
                    /\ pc = "failed"
                    /\ error = Exc("NotImplementedError",
                                   "navigation not currently supported", None)
           /\ georef = Unset /\ timestamp = Unset /\ image = Unset /\ result = Unset

\* C23's case: a file without navigation block has failed in the georeference
\* stage with the cursor still at the end of the directory.
C23_Witness ==
    /\ pc = "failed" /\ src.tag = None
    /\ Field(directory_block, "navigation_offset") = 0
    /\ stages[Len(stages)] = "georeference" /\ navigation_type = None
    /\ error.type = "NotImplementedError" /\ offset = 256

\* C24: the first row of an image with a line prefix is read exactly when the 4
\* bytes of its validity code (at data_offset) are the 4 bytes of the
\* directory's validity_code word (byte 140 of the record), and skipped
\* otherwise, codes with the most significant bit set included.  Stated for
\* the first row, which no earlier row can have displaced, and for prefixes
\* without calibration and band parts.
C24_ValidityBitExact ==
    LET dir == directory_block
    IN  (/\ Len(stages) = 7 /\ pc # "failed"
         /\ Field(dir, "line_prefix_length") > 0
         /\ Field(dir, "prefix_calibration_length") = 0
         /\ Field(dir, "prefix_band_length") = 0)
            => LET base == start + Field(dir, "data_offset")
                   same == SubSeq(file, base + 1, base + 4)
                              = SubSeq(file, start + 141, start + 144)
                   row_read == offset = base + Field(dir, "line_prefix_length")
                                          + Field(dir, "data_per_line")
                                              * Field(dir, "bytes_per_point")
                   row_skipped == offset = base + 4
               IN  /\ same => row_read
                   /\ ~same => row_skipped

\* C25: the names of a decoded directory and of a decoded navigation block of
\* any table of the catalog are pairwise distinct, and every field is the one
\* its name addresses.
C25_FieldNamesUnique ==
    LET Unique(block) ==
            /\ Cardinality({block[k][1] : k \in 1..Len(block)}) = Len(block)
            /\ \A k \in 1..Len(block) : Field(block, block[k][1]) = block[k][2]
    IN  /\ (Len(stages) = 2 /\ directory_block # Unset) => Unique(directory_block)
        /\ (Len(stages) = 3 /\ navigation_block # Unset) => Unique(navigation_block[1])

\* C26: for every packed value v with 1 <= v <= 1799999, dms_to_decimal(-v) is
\* the negative of dms_to_decimal(v): the sign applies to the degrees, the
\* minutes and the seconds alike.
C26_DmsSignSymmetric ==
    LET v == arg.ddd * 10000 + arg.mm * 100 + arg.ss
    IN  (pc = "dms_neg_done" /\ v >= 1 /\ v <= 1799999)
            => out = RNeg(dms_to_decimal(v))

====
